---------------------------- MODULE Spec2Model ----------------------------
(***************************************************************************)
(* A model of beetcamp's metadata parser (beetsplug/bandcamp/_metaguru.py) *)
(* and of the two plugin entry points that drive it                        *)
(* (beetsplug/bandcamp/__init__.py, get_album_info and get_track_info).    *)
(*                                                                         *)
(* Text is modelled as sequences of one-character strings, Python dicts as *)
(* functions whose DOMAIN is the set of keys present, Python lists as      *)
(* sequences, and regular expressions as syntax trees interpreted by a     *)
(* backtracking matcher with the priority order of Python's re module.     *)
(***************************************************************************)
EXTENDS Integers, Sequences, FiniteSets, TLC

(***************************************************************************)
(* Text                                                                    *)
(***************************************************************************)

\* The character sequence of a string literal.
S(str) == [i \in 1..Len(str) |-> SubSeq(str, i, i)]

\* Python's None, comparable with any text (no text holds a 4-character element).
None == <<"None">>

UpperSeq == S("ABCDEFGHIJKLMNOPQRSTUVWXYZ")
LowerSeq == S("abcdefghijklmnopqrstuvwxyz")
DigitSeq == S("0123456789")

Range(f) == {f[i] : i \in DOMAIN f}

Upper == Range(UpperSeq)
Lower == Range(LowerSeq)
Digit == Range(DigitSeq)
Space == {" ", "\t", "\n", "\r", "\f"}
Word  == Upper \cup Lower \cup Digit \cup {"_"}

\* str.lower() on one character.
LowerChar(ch) ==
    IF ch \in Upper THEN LowerSeq[CHOOSE i \in 1..26 : UpperSeq[i] = ch] ELSE ch

UpperChar(ch) ==
    IF ch \in Lower THEN UpperSeq[CHOOSE i \in 1..26 : LowerSeq[i] = ch] ELSE ch

\* str.lower()
StrLower(s) == [i \in 1..Len(s) |-> LowerChar(s[i])]

\* s[a:b] for 0 <= a <= b <= len(s)
Slice(s, a, b) == SubSeq(s, a + 1, b)

\* s.startswith(p) at offset i
StartsAt(s, p, i) == i + Len(p) <= Len(s) /\ Slice(s, i, i + Len(p)) = p

\* "p in s"
Contains(s, p) == \E i \in 0..Len(s) : StartsAt(s, p, i)

\* int(s) for a text of decimal digits
DigitVal(ch) == (CHOOSE i \in 1..10 : DigitSeq[i] = ch) - 1

RECURSIVE ParseInt(_)
ParseInt(s) ==
    IF s = <<>> THEN 0
    ELSE 10 * ParseInt(SubSeq(s, 1, Len(s) - 1)) + DigitVal(s[Len(s)])

(***************************************************************************)
(* Python dicts                                                            *)
(***************************************************************************)

EmptyDict == [k \in {} |-> None]

\* d.get(k, default)
Get(d, k, default) == IF k \in DOMAIN d THEN d[k] ELSE default

\* d.update(e): the keys of e added to d or overwritten in it
Update(d, e) ==
    [k \in DOMAIN d \cup DOMAIN e |-> IF k \in DOMAIN e THEN e[k] ELSE d[k]]

(***************************************************************************)
(* Regular expressions: syntax trees, and re.search / re.sub over them.    *)
(* A match state is [i |-> characters consumed so far, c |-> captures],    *)
(* where c[n] is <<start, end>> for a group that took part and None for    *)
(* one that did not.  M returns every way a node can match, in the order   *)
(* Python's backtracking tries them.                                       *)
(***************************************************************************)

Inf == -1

In(cs)        == [t |-> "set", cs |-> cs, pos |-> TRUE]
NotIn(cs)     == [t |-> "set", cs |-> cs, pos |-> FALSE]
Cat(rs)       == [t |-> "seq", rs |-> rs]
Alt(rs)       == [t |-> "alt", rs |-> rs]
Rep(r, lo, hi) == [t |-> "rep", r |-> r, lo |-> lo, hi |-> hi]
Opt(r)        == Rep(r, 0, 1)
Star(r)       == Rep(r, 0, Inf)
Plus(r)       == Rep(r, 1, Inf)
Grp(n, r)     == [t |-> "grp", n |-> n, r |-> r]
Bol           == [t |-> "bol"]
Eol           == [t |-> "eol"]
WordB         == [t |-> "wordb"]
Ahead(r)      == [t |-> "ahead", r |-> r]
Lit(str)      == Cat([i \in 1..Len(str) |-> In({SubSeq(str, i, i)})])
\* a literal under the IGNORECASE flag
LitI(str)     ==
    Cat([i \in 1..Len(str) |->
            In({LowerChar(SubSeq(str, i, i)), UpperChar(SubSeq(str, i, i))})])

RECURSIVE M(_, _, _, _)
RECURSIVE MSeq(_, _, _, _)
RECURSIVE MAlt(_, _, _, _, _)
RECURSIVE MRep(_, _, _, _, _)
RECURSIVE MThen(_, _, _, _, _)

\* every match of rs[k..] continued from each state of sts, in order
MSeq(rs, k, s, sts) ==
    IF k > Len(rs) \/ sts = <<>> THEN sts
    ELSE MSeq(rs, k + 1, s, MThen(rs[k], s, sts, 1, <<>>))

\* the matches of r from each state sts[j..], appended to acc
MThen(r, s, sts, j, acc) ==
    IF j > Len(sts) THEN acc
    ELSE MThen(r, s, sts, j + 1, acc \o M(r, s, sts[j].i, sts[j].c))

MAlt(rs, k, s, i, c) ==
    IF k > Len(rs) THEN <<>>
    ELSE M(rs[k], s, i, c) \o MAlt(rs, k + 1, s, i, c)

\* greedy repetition, n iterations done: one more iteration first, then stop
\* here; an iteration that consumed nothing is not repeated
MRep(r, s, i, c, n) ==
    LET more == IF r.hi # Inf /\ n >= r.hi THEN <<>>
                ELSE LET one  == M(r.r, s, i, c)
                         adv  == SelectSeq(one, LAMBDA st : st.i > i)
                         same == SelectSeq(one, LAMBDA st : st.i = i)
                         RECURSIVE Each(_)
                         Each(j) == IF j > Len(adv) THEN <<>>
                                    ELSE MRep(r, s, adv[j].i, adv[j].c, n + 1)
                                            \o Each(j + 1)
                     IN  Each(1) \o (IF n + 1 >= r.lo THEN same ELSE <<>>)
        stop == IF n >= r.lo THEN <<[i |-> i, c |-> c]>> ELSE <<>>
    IN  more \o stop

IsWord(s, i) == i >= 1 /\ i <= Len(s) /\ s[i] \in Word

M(r, s, i, c) ==
    CASE r.t = "set" ->
            IF i < Len(s) /\ ((s[i + 1] \in r.cs) <=> r.pos)
            THEN <<[i |-> i + 1, c |-> c]>> ELSE <<>>
      [] r.t = "seq" -> MSeq(r.rs, 1, s, <<[i |-> i, c |-> c]>>)
      [] r.t = "alt" -> MAlt(r.rs, 1, s, i, c)
      [] r.t = "rep" -> MRep(r, s, i, c, 0)
      [] r.t = "grp" ->
            LET inner == M(r.r, s, i, c)
            IN  [j \in 1..Len(inner) |->
                    [i |-> inner[j].i,
                     c |-> [inner[j].c EXCEPT ![r.n] = <<i, inner[j].i>>]]]
      [] r.t = "bol" -> IF i = 0 THEN <<[i |-> i, c |-> c]>> ELSE <<>>
      [] r.t = "eol" ->
            IF i = Len(s) \/ (i = Len(s) - 1 /\ s[Len(s)] = "\n")
            THEN <<[i |-> i, c |-> c]>> ELSE <<>>
      [] r.t = "wordb" ->
            IF IsWord(s, i) # IsWord(s, i + 1)
            THEN <<[i |-> i, c |-> c]>> ELSE <<>>
      [] r.t = "ahead" ->
            IF M(r.r, s, i, c) # <<>> THEN <<[i |-> i, c |-> c]>> ELSE <<>>

\* A compiled pattern: its tree and its number of groups.
Pattern(r, ng) == [r |-> r, ng |-> ng]

NoMatch == [found |-> FALSE]

\* re.search(p, s) from offset from: the first match at the leftmost offset
\* where there is one.  [found, start, end, c]
RECURSIVE SearchFrom(_, _, _)
SearchFrom(p, s, from) ==
    LET First(ms) ==
            IF ms # <<>>
            THEN [found |-> TRUE, start |-> from, end |-> ms[1].i, c |-> ms[1].c]
            ELSE SearchFrom(p, s, from + 1)
    IN  IF from > Len(s) THEN NoMatch
        ELSE First(M(p.r, s, from, [n \in 1..p.ng |-> None]))

Search(p, s) == SearchFrom(p, s, 0)

\* match.group(n): the text of group n, or None
Group(s, m, n) == IF m.c[n] = None THEN None ELSE Slice(s, m.c[n][1], m.c[n][2])

\* re.sub(p, "", s): s without the non-overlapping matches of p, left to right
RECURSIVE SubFrom(_, _, _)
SubFrom(p, s, from) ==
    LET Cut(m) ==
            IF ~m.found THEN Slice(s, from, Len(s))
            ELSE IF m.end > m.start
                 THEN Slice(s, from, m.start) \o SubFrom(p, s, m.end)
                 ELSE IF m.start >= Len(s) THEN Slice(s, from, Len(s))
                      ELSE Slice(s, from, m.start + 1) \o SubFrom(p, s, m.start + 1)
    IN  Cut(SearchFrom(p, s, from))

Sub(p, s) == SubFrom(p, s, 0)

(***************************************************************************)
(* The pattern library (PATTERNS) and the module constants.                *)
(***************************************************************************)

OFFICIAL      == S("Official")
PROMO         == S("Promotional")
WORLDWIDE     == S("XW")
DEFAULT_MEDIA == S("Digital Media")
DATA_SOURCE   == S("bandcamp")

\* MEDIA_MAP: format tag -> human name
MEDIA_MAP ==
    [k \in {S("VinylFormat"), S("CDFormat"), S("CassetteFormat"), S("DigitalFormat")} |->
        CASE k = S("VinylFormat")    -> S("Vinyl")
          [] k = S("CDFormat")       -> S("CD")
          [] k = S("CassetteFormat") -> S("Cassette")
          [] k = S("DigitalFormat")  -> DEFAULT_MEDIA]

\* _catalognum, as group n:  ([A-Z][^-.\s\d]+[-.\s]?\d{2,4}(?:[.-]?\d|CD)?)
CatalogNumRe(n) ==
    Grp(n, Cat(<<In(Upper),
                 Plus(NotIn({"-", "."} \cup Space \cup Digit)),
                 Opt(In({"-", "."} \cup Space)),
                 Rep(In(Digit), 2, 4),
                 Opt(Alt(<<Cat(<<Opt(In({".", "-"})), In(Digit)>>), Lit("CD")>>))>>))

\* _catalognum_header:  (?:Catalogue(?: (?:Number|N[or])?)?|Cat N[or])\.?:
CatalogNumHeaderRe ==
    Cat(<<Alt(<<Cat(<<Lit("Catalogue"),
                      Opt(Cat(<<Lit(" "),
                                Opt(Alt(<<Lit("Number"),
                                          Cat(<<Lit("N"), In({"o", "r"})>>)>>))>>))>>),
                Cat(<<Lit("Cat N"), In({"o", "r"})>>)>>),
          Opt(Lit(".")), Lit(":")>>)

\* PATTERNS["desc_catalognum"]:  {_catalognum_header} ({_catalognum})
PAT_desc_catalognum ==
    Pattern(Cat(<<CatalogNumHeaderRe, Lit(" "), Grp(1, CatalogNumRe(2))>>), 2)

\* PATTERNS["quick_catalognum"]:  \[{_catalognum}\]
PAT_quick_catalognum ==
    Pattern(Cat(<<Lit("["), CatalogNumRe(1), Lit("]")>>), 1)

\* PATTERNS["catalognum"]:  ^{_catalognum}|{_catalognum}$
PAT_catalognum ==
    Pattern(Alt(<<Cat(<<Bol, CatalogNumRe(1)>>), Cat(<<CatalogNumRe(2), Eol>>)>>), 2)

\* PATTERNS["catalognum_excl"]:  (?i:vol(ume)?|artists)|202[01]|(^|\s)C\d\d|\d+/\d+
PAT_catalognum_excl ==
    Pattern(Alt(<<Cat(<<LitI("vol"), Opt(Grp(1, LitI("ume")))>>),
                  LitI("artists"),
                  Cat(<<Lit("202"), In({"0", "1"})>>),
                  Cat(<<Grp(2, Alt(<<Bol, In(Space)>>)), Lit("C"), In(Digit), In(Digit)>>),
                  Cat(<<Plus(In(Digit)), Lit("/"), Plus(In(Digit))>>)>>), 2)

\* PATTERNS["digital"]:  ^DIGI (\d+\.\s?)?|(?i:{_exclusive})  with
\* _exclusive = \s?[\[(](bandcamp )?(digi(tal)? )?(bonus|only|exclusive)[\])]
PAT_digital ==
    Pattern(Alt(<<Cat(<<Bol, Lit("DIGI "),
                        Opt(Grp(1, Cat(<<Plus(In(Digit)), Lit("."), Opt(In(Space))>>)))>>),
                  Cat(<<Opt(In(Space)), In({"[", "("}),
                        Opt(Grp(2, LitI("bandcamp "))),
                        Opt(Grp(3, Cat(<<LitI("digi"), Opt(Grp(4, LitI("tal"))), Lit(" ")>>))),
                        Grp(5, Alt(<<LitI("bonus"), LitI("only"), LitI("exclusive")>>)),
                        In({"]", ")"})>>)>>), 5)

\* PATTERNS["release_date"]:  release[ds] ([\d]{2} [A-Z][a-z]+ [\d]{4})
PAT_release_date ==
    Pattern(Cat(<<Lit("release"), In({"d", "s"}), Lit(" "),
                  Grp(1, Cat(<<Rep(In(Digit), 2, 2), Lit(" "), In(Upper), Plus(In(Lower)),
                               Lit(" "), Rep(In(Digit), 4, 4)>>))>>), 1)

\* PATTERNS["track_name"] (re.VERBOSE):
\*   ((?P<track_alt>(^[ABCDEFGH]{1,3}\d|^\d)\d?)\s?[.-]+(?=[^\d]))?
\*   (\s?(?P<artist>[^-]*)(\s-\s))?
\*   (?P<title>(\b([^\s]-|-[^\s]|[^-])+$))
\* groups: 2 = track_alt, 5 = artist, 7 = title
PAT_track_name ==
    Pattern(Cat(<<
        Opt(Grp(1, Cat(<<
            Grp(2, Cat(<<Grp(3, Alt(<<Cat(<<Bol, Rep(In(Range(S("ABCDEFGH"))), 1, 3), In(Digit)>>),
                                      Cat(<<Bol, In(Digit)>>)>>)),
                         Opt(In(Digit))>>)),
            Opt(In(Space)), Plus(In({".", "-"})), Ahead(NotIn(Digit))>>))),
        Opt(Grp(4, Cat(<<Opt(In(Space)), Grp(5, Star(NotIn({"-"}))),
                         Grp(6, Cat(<<In(Space), Lit("-"), In(Space)>>))>>))),
        Grp(7, Grp(8, Cat(<<WordB,
                            Plus(Grp(9, Alt(<<Cat(<<NotIn(Space), Lit("-")>>),
                                              Cat(<<Lit("-"), NotIn(Space)>>),
                                              NotIn({"-"})>>))),
                            Eol>>)))>>), 9)

\* PATTERNS["vinyl_name"]:
\*   (?P<count>[1-5]|[Ss]ingle|[Dd]ouble|[Tt]riple)(LP)? ?x? ?((7|10|12)" )?Vinyl
PAT_vinyl_name ==
    Pattern(Cat(<<Grp(1, Alt(<<In({"1", "2", "3", "4", "5"}),
                               Cat(<<In({"S", "s"}), Lit("ingle")>>),
                               Cat(<<In({"D", "d"}), Lit("ouble")>>),
                               Cat(<<In({"T", "t"}), Lit("riple")>>)>>)),
                  Opt(Grp(2, Lit("LP"))), Opt(Lit(" ")), Opt(Lit("x")), Opt(Lit(" ")),
                  Opt(Grp(3, Cat(<<Grp(4, Alt(<<Lit("7"), Lit("10"), Lit("12")>>)),
                                   Lit("\" ")>>))),
                  Lit("Vinyl")>>), 4)

\* the pattern of Metaguru.track_artists:  " f(ea)?t\. .*"
PAT_feat ==
    Pattern(Cat(<<Lit(" f"), Opt(Grp(1, Lit("ea"))), Lit("t. "), Star(NotIn({"\n"}))>>), 1)

\* VALID_URL_CHARS
VALID_URL_CHARS == Lower \cup Digit

\* str.strip("-")
RECURSIVE StripHyphens(_)
StripHyphens(s) ==
    IF s = <<>> THEN s
    ELSE IF s[1] = "-" THEN StripHyphens(Tail(s))
    ELSE IF s[Len(s)] = "-" THEN StripHyphens(SubSeq(s, 1, Len(s) - 1))
    ELSE s

\* the reduce of urlify over chars[k..], p being what is accumulated so far
RECURSIVE UrlReduce(_, _, _)
UrlReduce(chars, k, p) ==
    IF k > Len(chars) THEN p
    ELSE UrlReduce(chars, k + 1,
             IF chars[k] \in VALID_URL_CHARS THEN Append(p, chars[k])
             ELSE IF p = <<>> \/ p[Len(p)] # "-" THEN Append(p, "-")
             ELSE p)

\* A faulty urlify: the hyphens at the two ends are kept
urlify_unstripped(pretty_string) ==
    UrlReduce(SelectSeq(StrLower(pretty_string), LAMBDA ch : ch # "'"), 1, <<>>)

\* urlify
urlify(pretty_string) ==
    StripHyphens(
        UrlReduce(SelectSeq(StrLower(pretty_string), LAMBDA ch : ch # "'"), 1, <<>>))

(***************************************************************************)
(* Helpers                                                                 *)
(***************************************************************************)

\* The outcome of evaluating a Python expression: a value or a raised exception.
Ok(v)    == [ok |-> TRUE, v |-> v]
Raise(e) == [ok |-> FALSE, exc |-> e]

\* A faulty get_vinyl_count: only a digit counts, a word is read as one disc
get_vinyl_count_digits(name) ==
    LET of(match) ==
            IF match.found /\ Group(name, match, 1)[1] \in Digit
            THEN ParseInt(Group(name, match, 1)) ELSE 1
    IN  of(Search(PAT_vinyl_name, name))

\* Helpers.get_vinyl_count
get_vinyl_count(name) ==
    LET conv(count) ==
            IF count[1] \in Digit THEN ParseInt(count)
            ELSE CASE StrLower(count) = S("single") -> 1
                   [] StrLower(count) = S("double") -> 2
                   [] StrLower(count) = S("triple") -> 3
        of(match) == IF ~match.found THEN 1 ELSE conv(Group(name, match, 1))
    IN  of(Search(PAT_vinyl_name, name))

\* Helpers.check_digital_only
check_digital_only(name) ==
    LET of(no_digi_only_name) ==
            IF no_digi_only_name # name
            THEN [digital_only |-> TRUE, name |-> no_digi_only_name]
            ELSE [digital_only |-> FALSE]
    IN  of(Sub(PAT_digital, name))

\* Helpers.parse_track_name
parse_track_name(name) ==
    LET of(match) ==
            IF match.found
            THEN [track_alt |-> Group(name, match, 2),
                  artist    |-> Group(name, match, 5),
                  title     |-> Group(name, match, 7)]
            ELSE [title |-> name, artist |-> None, track_alt |-> None]
    IN  of(Search(PAT_track_name, name))

\* next(group for group in match.groups() if group): the first non-empty group
RECURSIVE FirstGroup(_, _, _)
FirstGroup(s, m, n) ==
    IF n > Len(m.c) THEN None
    ELSE IF Group(s, m, n) # None /\ Group(s, m, n) # <<>> THEN Group(s, m, n)
    ELSE FirstGroup(s, m, n + 1)

\* A faulty parse_catalognum: the disc title is searched before the album title
parse_catalognum_disc_first(album, disctitle, description) ==
    LET Try(pattern, string) ==
            LET of(match) == IF match.found THEN FirstGroup(string, match, 1) ELSE None
            IN  of(Search(pattern, string))
        Pass(pattern, string) == Try(pattern, Sub(PAT_catalognum_excl, string))
        Or(found, rest) == IF found # None THEN found ELSE rest
    IN  Or(Pass(PAT_desc_catalognum, description),
        Or(Pass(PAT_catalognum, disctitle),
        Or(Pass(PAT_quick_catalognum, album),
        Or(Pass(PAT_catalognum, album), <<>>))))

\* Helpers.parse_catalognum
parse_catalognum(album, disctitle, description) ==
    LET \* one pass of the loop: the group returned, or None to go on
        Try(pattern, string) ==
            LET of(match) == IF match.found THEN FirstGroup(string, match, 1) ELSE None
            IN  of(Search(pattern, string))
        Pass(pattern, string) == Try(pattern, Sub(PAT_catalognum_excl, string))
        Or(found, rest) == IF found # None THEN found ELSE rest
    IN  Or(Pass(PAT_desc_catalognum, description),
        Or(Pass(PAT_quick_catalognum, album),
        Or(Pass(PAT_catalognum, disctitle),
        Or(Pass(PAT_catalognum, album), <<>>))))

\* Helpers.parse_release_date
parse_release_date(string) ==
    LET of(match) == IF match.found THEN Group(string, match, 1) ELSE <<>>
    IN  of(Search(PAT_release_date, string))

\* "Falsy" texts of Python: None and the empty text.
Falsy(v) == v = None \/ v = <<>>

\* s.rpartition(sep)[-1]: what follows the last sep, or all of s
RECURSIVE AfterLast(_, _, _)
AfterLast(s, sep, i) ==
    IF i < 0 THEN s
    ELSE IF StartsAt(s, sep, i) THEN Slice(s, i + Len(sep), Len(s))
    ELSE AfterLast(s, sep, i - 1)

\* s.split(","): the pieces between the commas, in order
RECURSIVE SplitComma(_, _, _)
SplitComma(s, i, piece) ==
    IF i > Len(s) THEN <<piece>>
    ELSE IF s[i] = "," THEN <<piece>> \o SplitComma(s, i + 1, <<>>)
    ELSE SplitComma(s, i + 1, Append(piece, s[i]))

\* DATE_FORMAT "%d %B %Y" of datetime.strptime: the month names of %B
MonthNames ==
    << S("january"), S("february"), S("march"), S("april"), S("may"), S("june"),
       S("july"), S("august"), S("september"), S("october"), S("november"),
       S("december") >>

IsLeap(y) == (y % 4 = 0 /\ y % 100 # 0) \/ y % 400 = 0

DaysIn(y, m) ==
    IF m = 2 THEN (IF IsLeap(y) THEN 29 ELSE 28)
    ELSE IF m \in {4, 6, 9, 11} THEN 30 ELSE 31

\* datetime.strptime(datestr, DATE_FORMAT).date() for a datestr that is empty
\* or has the shape PATTERNS["release_date"] captures:  dd Month yyyy
strptime(datestr) ==
    IF datestr = <<>> THEN Raise("ValueError")
    ELSE LET d     == ParseInt(Slice(datestr, 0, 2))
             y     == ParseInt(Slice(datestr, Len(datestr) - 4, Len(datestr)))
             mname == StrLower(Slice(datestr, 3, Len(datestr) - 5))
             ms    == {m \in 1..12 : MonthNames[m] = mname}
         IN  IF ms = {} \/ d = 0 \/ y = 0 THEN Raise("ValueError")
             ELSE LET m == CHOOSE n \in ms : TRUE
                  IN  IF d > DaysIn(y, m) THEN Raise("ValueError")
                      ELSE Ok([year |-> y, month |-> m, day |-> d])

\* date1 < date2
DateLess(a, b) ==
    \/ a.year < b.year
    \/ a.year = b.year /\ a.month < b.month
    \/ a.year = b.year /\ a.month = b.month /\ a.day < b.day

\* COUNTRY_OVERRIDES
COUNTRY_OVERRIDES ==
    [k \in {S("Russia"), S("The Netherlands"), S("UK")} |->
        CASE k = S("Russia")          -> S("RU")
          [] k = S("The Netherlands") -> S("NL")
          [] k = S("UK")              -> S("GB")]

\* pycountry.countries, by name (the entries the parsing tests rely on)
PyCountries ==
    [k \in {S("Germany"), S("Norway"), S("Sweden")} |->
        CASE k = S("Germany") -> S("DE")
          [] k = S("Norway")  -> S("NO")
          [] k = S("Sweden")  -> S("SE")]

\* pycountry.subdivisions.lookup, by lower-cased name: the country code
PySubdivisions ==
    [k \in {S("washington"), S("california"), S("new york"), S("quebec")} |->
        IF k = S("quebec") THEN S("CA") ELSE S("US")]

(***************************************************************************)
(* Metaguru.  An extractor g is the record of its attributes:              *)
(*   html, preferred_media, meta, _media, _all_medias, _singleton          *)
(* and cache, the values functools' cached_property has stored so far      *)
(* (a dict from property name to value).  A page text html is the record   *)
(*   block: "ok" when the line PATTERNS["meta"] finds decodes as JSON,     *)
(*          "bad" when it is found and does not decode, "none" when the    *)
(*          pattern finds no line;                                         *)
(*   json:  the value json.loads gives for that line;                      *)
(*   text:  the rest of the page, where the release date phrase lives.     *)
(***************************************************************************)

\* Metaguru.__init__
Metaguru(html, media) ==
    IF html.block = "bad" THEN Raise("JSONDecodeError")
    ELSE Ok([html            |-> html,
             preferred_media |-> media,
             meta            |-> IF html.block = "ok" THEN html.json ELSE EmptyDict,
             _media          |-> EmptyDict,
             _all_medias     |-> {DEFAULT_MEDIA},
             _singleton      |-> FALSE,
             cache           |-> EmptyDict])

\* d[k1][k2], or KeyError
Item2(d, k1, k2) ==
    IF k1 \in DOMAIN d /\ k2 \in DOMAIN d[k1] THEN Ok(d[k1][k2]) ELSE Raise("KeyError")

\* Each cached_property below is the body of the property: what its first
\* read computes.  The properties the body reads have been read, and so
\* stored in g.cache, by then (NextDep orders the reads).

\* Metaguru.album_name
album_name(g) ==
    IF "name" \in DOMAIN g.meta THEN Ok(g.meta["name"]) ELSE Raise("KeyError")

\* Metaguru.label
label(g) == Item2(g.meta, "publisher", "name")

\* Metaguru.album_id
album_id(g) ==
    IF "@id" \in DOMAIN g.meta THEN Ok(g.meta["@id"]) ELSE Raise("KeyError")

\* Metaguru.artist_id
artist_id(g) ==
    IF "byArtist" \in DOMAIN g.meta /\ "@id" \in DOMAIN g.meta["byArtist"]
    THEN Ok(g.meta["byArtist"]["@id"])
    ELSE Item2(g.meta, "publisher", "@id")

\* Metaguru.release_date
release_date(g) == strptime(parse_release_date(g.html.text))

\* Metaguru.media
media(g) ==
    Ok(Get(MEDIA_MAP, Get(g._media, "musicReleaseFormat", <<>>), DEFAULT_MEDIA))

\* Metaguru.disctitle
disctitle(g) ==
    Ok(IF g.cache["media"] = DEFAULT_MEDIA THEN <<>> ELSE Get(g._media, "name", <<>>))

\* Metaguru.mediums
mediums(g) ==
    IF g.cache["media"] = S("Vinyl") THEN get_vinyl_count(g.cache["disctitle"]) ELSE 1

\* Metaguru.description
description(g) ==
    LET ds   == << Get(g.meta, "description", <<>>), Get(g._media, "description", <<>>) >>
        good == SelectSeq(ds, LAMBDA d :
                    d # <<>> /\ ~StartsAt(d, S("Includes high-quality dow"), 0))
    IN  IF good = <<>> THEN <<>> ELSE good[1]

\* Metaguru.catalognum
catalognum(g) ==
    Ok(parse_catalognum(g.cache["album_name"], g.cache["disctitle"], description(g)))

\* normalize("NFKD", loc).encode("ascii", "ignore").decode(): a letter with a
\* diacritic is left as the letter, any other character outside ASCII is
\* dropped (the characters the pages use)
AsciiFold(s) ==
    LET base == ("é" :> "e") @@ ("ö" :> "o")
        RECURSIVE fold(_)
        fold(k) ==
            IF k > Len(s) THEN <<>>
            ELSE (IF s[k] \in DOMAIN base THEN <<base[s[k]]>>
                  ELSE IF s[k] = "ø" THEN <<>>
                  ELSE <<s[k]>>) \o fold(k + 1)
    IN  fold(1)

\* A faulty country: the override table is not consulted
country_without_overrides(g) ==
    IF ~("publisher" \in DOMAIN g.meta
         /\ "foundingLocation" \in DOMAIN g.meta["publisher"]
         /\ "name" \in DOMAIN g.meta["publisher"]["foundingLocation"])
    THEN Ok(WORLDWIDE)
    ELSE LET full == g.meta["publisher"]["foundingLocation"]["name"]
             name == AsciiFold(AfterLast(full, S(", "), Len(full)))
         IN  IF name \in DOMAIN PyCountries THEN Ok(PyCountries[name])
             ELSE IF StrLower(name) \in DOMAIN PySubdivisions
             THEN Ok(PySubdivisions[StrLower(name)])
             ELSE Ok(WORLDWIDE)

\* Metaguru.country
country(g) ==
    IF ~("publisher" \in DOMAIN g.meta
         /\ "foundingLocation" \in DOMAIN g.meta["publisher"]
         /\ "name" \in DOMAIN g.meta["publisher"]["foundingLocation"])
    THEN Ok(WORLDWIDE)
    ELSE LET full == g.meta["publisher"]["foundingLocation"]["name"]
             name == AsciiFold(AfterLast(full, S(", "), Len(full)))
         IN  IF name \in DOMAIN COUNTRY_OVERRIDES THEN Ok(COUNTRY_OVERRIDES[name])
             ELSE IF name \in DOMAIN PyCountries THEN Ok(PyCountries[name])
             ELSE IF StrLower(name) \in DOMAIN PySubdivisions
             THEN Ok(PySubdivisions[StrLower(name)])
             ELSE Ok(WORLDWIDE)

\* one pass of the loop of Metaguru.tracks over raw_track: the item as updated
TrackItem(raw_track) ==
    LET positioned(t) ==
            Update(t, "position" :>
                (IF Get(raw_track, "position", 0) = 0 THEN 1 ELSE raw_track["position"]))
        flagged(t)  == Update(t, check_digital_only(t["name"]))
        named(t)    == Update(t, parse_track_name(t["name"]))
        credited(t) ==
            IF Falsy(Get(t, "artist", None)) /\ "byArtist" \in DOMAIN t
            THEN Update(t, "artist" :> t["byArtist"]["name"])
            ELSE t
    IN  credited(named(flagged(positioned(raw_track["item"]))))

\* The list Metaguru.tracks returns holds the very dicts of meta (the items
\* of the tracklist, or meta itself for a singleton), so it is read out of
\* meta here; mode says which of the two it is.
TracksOf(mode, meta) ==
    IF mode = "meta" THEN <<meta>>
    ELSE LET raw == Get(meta["track"], "itemListElement", <<>>)
         IN  [k \in 1..Len(raw) |-> raw[k]["item"]]

\* Metaguru.tracks, first evaluation: the mode and meta as the loop leaves it
TracksCompute(g) ==
    IF ~g._singleton
    THEN IF "track" \notin DOMAIN g.meta THEN Raise("KeyError")
         ELSE IF "itemListElement" \notin DOMAIN g.meta["track"]
         THEN Ok([mode |-> "items", meta |-> g.meta])
         ELSE LET raw == g.meta["track"]["itemListElement"]
                  new == [k \in 1..Len(raw) |->
                             Update(raw[k], "item" :> TrackItem(raw[k]))]
              IN  Ok([mode |-> "items",
                      meta |-> Update(g.meta, "track" :>
                                   Update(g.meta["track"], "itemListElement" :> new))])
    ELSE IF "name" \notin DOMAIN g.meta THEN Raise("KeyError")
    ELSE Ok([mode |-> "meta", meta |-> TrackItem([item |-> g.meta])])

\* Metaguru.tracks once stored: the list it returned
tracks(g) == TracksOf(g.cache["tracks"], g.meta)

\* Metaguru.track_artists
track_artists(g) ==
    LET ts == tracks(g)
    IN  Ok({Sub(PAT_feat, IF Falsy(Get(ts[k], "artist", None)) THEN <<>>
                          ELSE ts[k]["artist"]) : k \in 1..Len(ts)} \ {<<>>})

\* Metaguru.is_lp
is_lp(g) ==
    Contains(g.cache["album_name"], S("LP")) \/ Contains(g.cache["disctitle"], S("LP"))

\* Metaguru.is_ep
is_ep(g) ==
    Ok(\/ Contains(g.cache["album_name"], S("EP"))
       \/ Contains(g.cache["disctitle"], S("EP"))
       \/ (g._all_medias # {DEFAULT_MEDIA} /\ Len(tracks(g)) < 5))

\* A faulty is_va: the title alone decides
is_va_by_title(g) ==
    Ok(Contains(StrLower(g.cache["album_name"]), S("various artists")))

\* Metaguru.is_va
is_va(g) ==
    Ok(\/ Contains(StrLower(g.cache["album_name"]), S("various artists"))
       \/ (Cardinality(g.cache["track_artists"]) > 1 /\ Len(tracks(g)) > 4))

\* Metaguru.bandcamp_albumartist
bandcamp_albumartist(g) == Item2(g.meta, "byArtist", "name")

\* A faulty albumartist: always the artist the page declares
albumartist_declared(g) == Item2(g.meta, "byArtist", "name")

\* Metaguru.albumartist
albumartist(g) ==
    IF g.cache["is_va"] THEN Ok(S("Various Artists"))
    ELSE IF Cardinality(g.cache["track_artists"]) = 1
    THEN Ok(CHOOSE a \in g.cache["track_artists"] : TRUE)
    ELSE Ok(g.cache["bandcamp_albumartist"])

\* A faulty albumtype: various-artists is looked at before LP
albumtype_va_first(g) ==
    IF g._singleton THEN S("single")
    ELSE IF g.cache["is_va"] THEN S("compilation")
    ELSE IF is_lp(g) THEN S("album")
    ELSE S("ep")

\* Metaguru.albumtype
albumtype(g) ==
    IF g._singleton THEN S("single")
    ELSE IF is_lp(g) THEN S("album")
    ELSE IF g.cache["is_va"] THEN S("compilation")
    ELSE S("ep")

\* str.strip()
RECURSIVE Strip(_)
Strip(s) ==
    IF s = <<>> THEN s
    ELSE IF s[1] \in Space THEN Strip(Tail(s))
    ELSE IF s[Len(s)] \in Space THEN Strip(SubSeq(s, 1, Len(s) - 1))
    ELSE s

\* The pattern Helpers.clean_up_album_name compiles for the extra exclusion
\* terms args.  The groups of the source's pattern are left out: the
\* substitution does not read them.
clean_up_pattern(args) ==
    LET exclude == << S("E.P."), S("various artists"), S("limited edition"),
                      S("free download") >> \o args
        excl    == Alt([k \in 1..Len(exclude) |->
                        Cat([j \in 1..Len(exclude[k]) |->
                                In({LowerChar(exclude[k][j]), UpperChar(exclude[k][j])})])])
        dash    == Cat(<<In(Space), Lit("-"), In(Space)>>)
    IN  Pattern(Alt(<<
            Cat(<<Lit(" "), Opt(In({"[", "("})), In({"E", "e", "L", "l"}),
                  In({"P", "p"}), Opt(In({"]", ")"}))>>),
            Cat(<<excl, In(Space), Plus(In({"|", "/"})), Opt(In(Space))>>),
            Cat(<<In({"[", "("}), excl, In({"]", ")"})>>),
            Cat(<<dash, excl>>),
            Cat(<<excl, Opt(In(Space)), Lit("-"), In(Space)>>),
            Cat(<<Lit(" "), excl, Eol>>)>>), 0)

\* Helpers.clean_up_album_name(name, *args)
clean_up_album_name(name, args) ==
    LET clean == Strip(Sub(clean_up_pattern(args), name))
    IN  IF clean # <<>> THEN clean ELSE IF args # <<>> THEN args[1] ELSE name

\* The set of exclusion terms Metaguru.clean_album_name passes on
clean_album_name_args(g) ==
    ({g.cache["catalognum"], g.cache["label"]} \ {<<>>})
        \cup (IF g._singleton THEN {} ELSE {g.cache["albumartist"]})

\* The orders in which Python may iterate over a set of texts
Orderings(set) ==
    {o \in [1..Cardinality(set) -> set] : \A a, b \in DOMAIN o : a # b => o[a] # o[b]}

\* Metaguru.clean_album_name, with the set of terms unpacked in the order args
clean_album_name(g, args) == clean_up_album_name(g.cache["album_name"], args)

\* Helpers.get_duration; a value is held in tenths of a second
get_duration(source) ==
    LET props == Get(source, "additionalProperty", <<>>)
        hits  == SelectSeq(props, LAMBDA item : Get(item, "name", None) = S("duration_secs"))
    IN  IF hits = <<>> THEN 0 ELSE Get(hits[1], "value", 0) \div 10

(***************************************************************************)
(* Evaluation order.  Reading a cached_property for the first time stores  *)
(* its value, and reads the properties it depends on first; an exception   *)
(* on the way leaves what was stored before it.  NextDep(g, p) is the      *)
(* next property, not stored yet, that the body of p reads.                *)
(***************************************************************************)

Done(g)       == [g |-> g, exc |-> ""]
Failed(g, e)  == [g |-> g, exc |-> e]

FirstUncached(g, ps) ==
    LET left == SelectSeq(ps, LAMBDA q : q \notin DOMAIN g.cache)
    IN  IF left = <<>> THEN "" ELSE left[1]

NextDep(g, p) ==
    LET has(q) == q \in DOMAIN g.cache
    IN  CASE p = "disctitle"     -> FirstUncached(g, <<"media">>)
          [] p = "catalognum"    -> FirstUncached(g, <<"album_name", "disctitle">>)
          [] p = "track_artists" -> FirstUncached(g, <<"tracks">>)
          [] p = "is_ep" ->
                IF ~has("album_name") THEN "album_name"
                ELSE IF Contains(g.cache["album_name"], S("EP")) THEN ""
                ELSE IF ~has("disctitle") THEN "disctitle"
                ELSE IF Contains(g.cache["disctitle"], S("EP")) THEN ""
                ELSE IF g._all_medias = {DEFAULT_MEDIA} THEN ""
                ELSE FirstUncached(g, <<"tracks">>)
          [] p = "is_va" ->
                IF ~has("album_name") THEN "album_name"
                ELSE IF Contains(StrLower(g.cache["album_name"]), S("various artists")) THEN ""
                ELSE IF ~has("track_artists") THEN "track_artists"
                ELSE IF Cardinality(g.cache["track_artists"]) > 1
                THEN FirstUncached(g, <<"tracks">>)
                ELSE ""
          [] p = "albumartist" ->
                IF ~has("is_va") THEN "is_va"
                ELSE IF g.cache["is_va"] THEN ""
                ELSE IF ~has("track_artists") THEN "track_artists"
                ELSE IF Cardinality(g.cache["track_artists"]) = 1 THEN ""
                ELSE FirstUncached(g, <<"bandcamp_albumartist">>)
          [] OTHER -> ""

\* the body of cached property p, evaluated on g
Compute(g, p) ==
    CASE p = "album_name"           -> album_name(g)
      [] p = "label"                -> label(g)
      [] p = "album_id"             -> album_id(g)
      [] p = "artist_id"            -> artist_id(g)
      [] p = "release_date"         -> release_date(g)
      [] p = "media"                -> media(g)
      [] p = "disctitle"            -> disctitle(g)
      [] p = "catalognum"           -> catalognum(g)
      [] p = "country"              -> country(g)
      [] p = "tracks"               -> TracksCompute(g)
      [] p = "track_artists"        -> track_artists(g)
      [] p = "is_ep"                -> is_ep(g)
      [] p = "is_va"                -> is_va(g)
      [] p = "bandcamp_albumartist" -> bandcamp_albumartist(g)
      [] p = "albumartist"          -> albumartist(g)

\* g with the value v of property p stored; the loop of tracks has also
\* updated the dicts of meta by then
Store(g, p, v) ==
    IF p = "tracks"
    THEN [g EXCEPT !.cache = Update(@, "tracks" :> v.mode), !.meta = v.meta]
    ELSE [g EXCEPT !.cache = Update(@, p :> v)]

\* g after reading property p
RECURSIVE Touch(_, _)
Touch(g, p) ==
    LET then(d)   == IF d.exc # "" THEN d ELSE Touch(d.g, p)
        stored(v) == IF v.ok THEN Done(Store(g, p, v.v)) ELSE Failed(g, v.exc)
        from(dep) == IF dep # "" THEN then(Touch(g, dep)) ELSE stored(Compute(g, p))
    IN  IF p \in DOMAIN g.cache THEN Done(g) ELSE from(NextDep(g, p))

\* g after reading the properties ps[k..] in order
RECURSIVE TouchList(_, _, _)
TouchList(g, ps, k) ==
    LET then(d) == IF d.exc # "" THEN d ELSE TouchList(d.g, ps, k + 1)
    IN  IF k > Len(ps) THEN Done(g) ELSE then(Touch(g, ps[k]))

(***************************************************************************)
(* The results of the two public operations: a record, None, or an         *)
(* exception that leaves the call.                                         *)
(***************************************************************************)

Returned(v) == [kind |-> "record", v |-> v]
ReturnedNone == [kind |-> "none"]
Raised(e)   == [kind |-> "raise", exc |-> e]

\* Metaguru._common
_common(g) ==
    [data_source |-> DATA_SOURCE,
     media       |-> g.cache["media"],
     data_url    |-> g.cache["album_id"],
     artist_id   |-> g.cache["artist_id"]]

\* A faulty _common_album: a release dated today is Official already
_common_album_from_today(g, args, today) ==
    [year        |-> g.cache["release_date"].year,
     month       |-> g.cache["release_date"].month,
     day         |-> g.cache["release_date"].day,
     label       |-> g.cache["label"],
     catalognum  |-> g.cache["catalognum"],
     albumtype   |-> albumtype(g),
     album       |-> clean_album_name(g, args),
     albumstatus |-> IF ~DateLess(today, g.cache["release_date"]) THEN OFFICIAL ELSE PROMO,
     country     |-> g.cache["country"]]

\* Metaguru._common_album
_common_album(g, args, today) ==
    [year        |-> g.cache["release_date"].year,
     month       |-> g.cache["release_date"].month,
     day         |-> g.cache["release_date"].day,
     label       |-> g.cache["label"],
     catalognum  |-> g.cache["catalognum"],
     albumtype   |-> albumtype(g),
     album       |-> clean_album_name(g, args),
     albumstatus |-> IF DateLess(g.cache["release_date"], today) THEN OFFICIAL ELSE PROMO,
     country     |-> g.cache["country"]]

\* Metaguru._trackinfo(track, medium_total, **kwargs); index 0 stands for no
\* index keyword, track_id None for no track_id keyword
_trackinfo(g, track, medium_total, index, track_id, kwargs) ==
    LET idx == IF index # 0 THEN index ELSE Get(track, "position", 0)
    IN  _common(g) @@ kwargs @@
        [title        |-> Get(track, "title", None),
         track_id     |-> IF ~Falsy(track_id) THEN track_id ELSE Get(track, "@id", None),
         artist       |-> IF ~Falsy(Get(track, "artist", None)) THEN track["artist"]
                          ELSE g.cache["bandcamp_albumartist"],
         index        |-> idx,
         length       |-> get_duration(track),
         track_alt    |-> Get(track, "track_alt", None),
         disctitle    |-> IF g.cache["disctitle"] # <<>> THEN g.cache["disctitle"] ELSE None,
         medium       |-> 1,
         medium_index |-> idx,
         medium_total |-> medium_total]

\* A faulty filtered_tracks: every track is kept
all_tracks(g, include_all) == tracks(g)

\* The tracks albuminfo keeps
filtered_tracks(g, include_all) ==
    IF g.cache["media"] = S("Digital Media") \/ include_all THEN tracks(g)
    ELSE SelectSeq(tracks(g), LAMBDA t : ~t["digital_only"])

\* the next property, not stored yet, that albuminfo reads
albuminfoNext(g, include_all) ==
    LET has(q) == q \in DOMAIN g.cache
        ft     == filtered_tracks(g, include_all)
        noartist(k) == Falsy(Get(ft[k], "artist", None))
    IN  IF ~has("media") THEN "media"
        ELSE IF ~has("tracks") THEN "tracks"
        ELSE IF ft # <<>> /\ FirstUncached(g, <<"album_id", "artist_id">>) # ""
        THEN FirstUncached(g, <<"album_id", "artist_id">>)
        ELSE IF ft # <<>> /\ noartist(1) /\ ~has("bandcamp_albumartist")
        THEN "bandcamp_albumartist"
        ELSE IF ft # <<>> /\ ~has("disctitle") THEN "disctitle"
        ELSE IF (\E k \in 1..Len(ft) : noartist(k)) /\ ~has("bandcamp_albumartist")
        THEN "bandcamp_albumartist"
        ELSE IF FirstUncached(g, <<"album_id", "artist_id", "release_date", "label",
                                   "catalognum">>) # ""
        THEN FirstUncached(g, <<"album_id", "artist_id", "release_date", "label",
                                "catalognum">>)
        ELSE IF ~g._singleton /\ ~is_lp(g) /\ ~has("is_va") THEN "is_va"
        ELSE IF ~g._singleton /\ ~has("albumartist") THEN "albumartist"
        ELSE FirstUncached(g, <<"country", "albumartist", "is_va">>)

RECURSIVE albuminfoRun(_, _)
albuminfoRun(g, include_all) ==
    LET then(d) == IF d.exc # "" THEN d ELSE albuminfoRun(d.g, include_all)
        from(p) == IF p = "" THEN Done(g) ELSE then(Touch(g, p))
    IN  from(albuminfoNext(g, include_all))

\* The AlbumInfo of Metaguru.albuminfo, once every property it reads is stored
AlbumInfo(g, include_all, args, today) ==
    LET ft == filtered_tracks(g, include_all)
    IN  _common(g) @@ _common_album(g, args, today) @@
        [artist   |-> g.cache["albumartist"],
         album_id |-> g.cache["album_id"],
         va       |-> g.cache["is_va"],
         mediums  |-> mediums(g),
         tracks   |-> [k \in 1..Len(ft) |->
                          _trackinfo(g, ft[k], Len(ft), 0, None, EmptyDict)]]

\* The format descriptors by human name, as the first loop of album builds
\* them; KeyError when a format tag is not a key of MEDIA_MAP
RECURSIVE BuildMedias(_, _, _)
BuildMedias(formats, k, medias) ==
    IF k > Len(formats) THEN Ok(medias)
    ELSE IF "musicReleaseFormat" \notin DOMAIN formats[k]
    THEN BuildMedias(formats, k + 1, medias)
    ELSE IF formats[k]["musicReleaseFormat"] \notin DOMAIN MEDIA_MAP
    THEN Raise("KeyError")
    ELSE BuildMedias(formats, k + 1,
             Update(medias, MEDIA_MAP[formats[k]["musicReleaseFormat"]] :> formats[k]))

\* The second loop of album: the descriptor of the first preference that is
\* in medias, else medias[DEFAULT_MEDIA]
SelectMedia(preferred_media, medias) ==
    LET prefs == SplitComma(preferred_media, 1, <<>>)
        hits  == SelectSeq(prefs, LAMBDA pr : pr \in DOMAIN medias)
    IN  IF hits # <<>> THEN Ok(medias[hits[1]])
        ELSE IF DEFAULT_MEDIA \in DOMAIN medias THEN Ok(medias[DEFAULT_MEDIA])
        ELSE Raise("KeyError")

\* A faulty albumRun: a missing albumRelease is read as an empty list
albumRun_unguarded(g, include_all) ==
    LET chosen(g1, sel) ==
            IF ~sel.ok THEN Failed(g1, sel.exc)
            ELSE albuminfoRun([g1 EXCEPT !._media = sel.v], include_all)
        mapped(medias) ==
            IF ~medias.ok THEN Failed(g, "none")
            ELSE chosen([g EXCEPT !._all_medias = DOMAIN medias.v],
                        SelectMedia(g.preferred_media, medias.v))
    IN  mapped(BuildMedias(Get(g.meta, "albumRelease", <<>>), 1, EmptyDict))

\* Metaguru.album up to the call of albuminfo, and the properties albuminfo
\* reads: the extractor it leaves, and the exception if one was raised
\* ("none" for the return of None)
albumRun(g, include_all) ==
    LET chosen(g1, sel) ==
            IF ~sel.ok THEN Failed(g1, sel.exc)
            ELSE albuminfoRun([g1 EXCEPT !._media = sel.v], include_all)
        mapped(medias) ==
            IF ~medias.ok THEN Failed(g, "none")
            ELSE chosen([g EXCEPT !._all_medias = DOMAIN medias.v],
                        SelectMedia(g.preferred_media, medias.v))
    IN  IF "albumRelease" \notin DOMAIN g.meta THEN Failed(g, "none")
        ELSE mapped(BuildMedias(g.meta["albumRelease"], 1, EmptyDict))

\* The result of Metaguru.album(include_all), given albumRun's outcome run
albumResult(run, include_all, args, today) ==
    IF run.exc = "none" THEN ReturnedNone
    ELSE IF run.exc # "" THEN Raised(run.exc)
    ELSE Returned(AlbumInfo(run.g, include_all, args, today))

\* Metaguru.singleton up to the call of _trackinfo and the properties it reads
singletonRun(g, NEW_BEETS) ==
    LET reads(g2) ==
            TouchList(g2,
                <<"album_id">>
                \o (IF NEW_BEETS
                    THEN <<"release_date", "label", "catalognum", "country",
                           "bandcamp_albumartist">>
                    ELSE <<>>)
                \o <<"media", "artist_id">>
                \o (IF Falsy(Get(g2.meta, "artist", None))
                    THEN <<"bandcamp_albumartist">> ELSE <<>>)
                \o <<"disctitle">>, 1)
        then(d) ==
            IF d.exc # "" THEN d
            ELSE reads([d.g EXCEPT !.meta =
                           Update(@, parse_track_name(d.g.cache["album_name"]))])
    IN  then(Touch([g EXCEPT !._singleton = TRUE], "album_name"))

\* A faulty singletonResult: no index keyword is passed on to _trackinfo
singletonResult_unindexed(run, NEW_BEETS, args, today) ==
    IF run.exc # "" THEN Raised(run.exc)
    ELSE Returned(_trackinfo(run.g, run.g.meta, 1, 0, run.g.cache["album_id"],
                     IF NEW_BEETS
                     THEN _common_album(run.g, args, today)
                            @@ [albumartist |-> run.g.cache["bandcamp_albumartist"]]
                     ELSE EmptyDict))

\* The result of Metaguru.singleton, given singletonRun's outcome run
singletonResult(run, NEW_BEETS, args, today) ==
    IF run.exc # "" THEN Raised(run.exc)
    ELSE Returned(_trackinfo(run.g, run.g.meta, 1, 1, run.g.cache["album_id"],
                     IF NEW_BEETS
                     THEN _common_album(run.g, args, today)
                            @@ [albumartist |-> run.g.cache["bandcamp_albumartist"]]
                     ELSE EmptyDict))

(***************************************************************************)
(* The pages the requests are run on.                                      *)
(***************************************************************************)

MaxFormats == 2
MaxTracks  == 5

Some(v) == [has |-> TRUE, v |-> v]
Nothing == [has |-> FALSE]

\* the entries of albumRelease: one per recognized tag, one with a tag that
\* MEDIA_MAP does not have, one with no tag at all
FormatKinds ==
    { [musicReleaseFormat |-> S("VinylFormat"), name |-> S("2 x Vinyl LP - MTY003"),
       description |-> S("Heavy vinyl")],
      [musicReleaseFormat |-> S("CDFormat"), name |-> S("CD")],
      [musicReleaseFormat |-> S("CassetteFormat"), name |-> S("Tape")],
      [musicReleaseFormat |-> S("DigitalFormat"), name |-> S("Album"),
       description |-> S("Includes high-quality download")],
      [musicReleaseFormat |-> S("VideoFormat"), name |-> S("Video")],
      [name |-> S("Bundle")] }

FormatOf(tag) == CHOOSE f \in FormatKinds : Get(f, "musicReleaseFormat", <<>>) = tag

FormatLists == UNION {[1..n -> FormatKinds] : n \in 0..MaxFormats}

\* the items of a tracklist, by kind of name
TrackKinds ==
    << [name |-> S("A1. Artist - One")],
       [name |-> S("Other - Two [Digital Bonus]")],
       [name |-> S("Artist ft. Guest - Three")],
       [name |-> S("Four")],
       [name |-> S("Five"), byArtist |-> [name |-> S("Other")]],
       [name |-> S("Artist - Six (bonus)")] >>

\* the tracklist entry at position k holding an item of kind kind
RawTrack(k, kind) ==
    [position |-> k,
     item |-> ("@id" :> <<"t", DigitSeq[k + 1]>>) @@ TrackKinds[kind] @@
              [additionalProperty |->
                  << [name |-> S("track_id"), value |-> k],
                     [name |-> S("duration_secs"), value |-> 1000 * k + 5] >>]]

\* n tracks of kind base, the one at position at of kind other
Tracklist(n, base, other, at) ==
    [k \in 1..n |-> RawTrack(k, IF k = at THEN other ELSE base)]

KindPairs == { <<1, 1>>, <<1, 2>>, <<1, 3>>, <<1, 5>>, <<4, 4>> }

Tracklists ==
    {Tracklist(n, pr[1], pr[2], 2) : n \in 0..MaxTracks, pr \in KindPairs}

Names == { S("Album"), S("Some LP"), S("Various Artists 2") }

\* disc titles of a Vinyl format, each with the number of discs it announces
VinylCount ==
    (S("2 x Vinyl LP - MTY003") :> 2) @@ (S("3 x 12\" Vinyl LP - MTY003") :> 3) @@
    (S("Double Vinyl LP - MTY003") :> 2) @@ (S("12\" Vinyl - MTY003") :> 1) @@
    (S("EP 12\"Green Vinyl") :> 1) @@ (S("2LP Vinyl") :> 2) @@
    (S("single Vinyl") :> 1) @@ (S("Triple 10\" Vinyl") :> 3) @@
    (S("5 Vinyl") :> 5) @@ (S("Black wax") :> 1)

VinylFormat(title) == [musicReleaseFormat |-> S("VinylFormat"), name |-> title]

Texts == { S("released 04 December 2020"), S("by Label"), S("released 31 February 2020") }

\* publisher locations, each with the country code expected for it
LocationCountry ==
    (S("Berlin, Germany") :> S("DE")) @@ (S("UK") :> S("GB")) @@
    (S("No Ones, Land") :> S("XW")) @@ (S("Seattle, Washington") :> S("US")) @@
    (S("Montreal, Québec") :> S("CA")) @@ (S("London, UK") :> S("GB"))

Locations == {Nothing} \cup {Some(l) : l \in DOMAIN LocationCountry}

\* the days a request runs on: before, on and after the release date of DatedText
Todays ==
    { [year |-> 2020, month |-> 11, day |-> 30], [year |-> 2020, month |-> 12, day |-> 4],
      [year |-> 2021, month |-> 1, day |-> 1] }

\* the decoded metadata block of a page
Block(name, formats, tracklist, location) ==
    ("@id" :> S("a")) @@
    [name      |-> name,
     byArtist  |-> ("@id" :> S("l")) @@ [name |-> S("Label")],
     publisher |-> ("@id" :> S("l")) @@ [name |-> S("Label")] @@
                   (IF location.has THEN [foundingLocation |-> [name |-> location.v]]
                    ELSE EmptyDict),
     additionalProperty |-> << [name |-> S("duration_secs"), value |-> 2009] >>] @@
    (IF formats.has THEN [albumRelease |-> formats.v] ELSE EmptyDict) @@
    (IF tracklist.has THEN [track |-> tracklist.v] ELSE EmptyDict)

OkPage(name, formats, tracklist, text, location) ==
    [block |-> "ok", json |-> Block(name, formats, tracklist, location), text |-> text]

ListOf(raw) == Some([itemListElement |-> raw])

DatedText == S("released 04 December 2020")

\* names of pages of one track, and of a release named after its label
TrackPageNames == { S("Artist - Title"), S("A1. Artist - Title"), S("[Label]") }

\* page without the duration_secs property at the top of its block
Untimed(page) ==
    [page EXCEPT !.json = [k \in DOMAIN page.json \ {"additionalProperty"} |-> page.json[k]]]

Pages ==
    {OkPage(S("Album"), f, ListOf(Tracklist(3, 1, 2, 2)), DatedText, Nothing) :
        f \in {Some(fl) : fl \in FormatLists} \cup {Nothing}}
    \cup
    {OkPage(n, Some(<<FormatOf(S("VinylFormat")), FormatOf(S("CDFormat")),
                      FormatOf(S("DigitalFormat"))>>), ListOf(t), DatedText, Nothing) :
        n \in Names, t \in Tracklists}
    \cup
    {OkPage(S("Album"), Some(<<FormatOf(S("CDFormat")), FormatOf(S("DigitalFormat"))>>),
            t, x, l) :
        t \in {ListOf(Tracklist(2, 4, 4, 1)), Nothing, Some(EmptyDict)},
        x \in Texts, l \in Locations}
    \cup
    {OkPage(S("Album"), Some(<<VinylFormat(v), FormatOf(S("DigitalFormat"))>>),
            ListOf(Tracklist(2, 4, 4, 1)), DatedText, Nothing) : v \in DOMAIN VinylCount}
    \cup
    {OkPage(n, Some(<<FormatOf(S("CDFormat")), FormatOf(S("DigitalFormat"))>>),
            ListOf(Tracklist(3, 1, 1, 2)), DatedText, Nothing) : n \in TrackPageNames}
    \cup
    {Untimed(OkPage(S("Artist - Title"), Some(<<FormatOf(S("DigitalFormat"))>>),
                    Nothing, DatedText, Nothing))}
    \cup
    {[block |-> b, json |-> EmptyDict, text |-> x] :
        b \in {"none", "bad"}, x \in {DatedText, S("by Label")}}

\* the text BandcampRequestsHandler._get returns when the request fails
EmptyHtml == [block |-> "empty", json |-> EmptyDict, text |-> <<>>]

Preferences == { S("Digital Media"), S("Vinyl"), S("CD,Vinyl"), S("Cassette,CD") }

(***************************************************************************)
(* The plugin serving one request: BandcampPlugin.get_album_info or        *)
(* get_track_info on the text of a fetched page.                           *)
(***************************************************************************)

VARIABLES
    pc,            \* "fetched", "built", "done"
    html,          \* the page text _get returned
    preferred_media, \* BandcampPlugin.media, the preferred_media setting
    include_all,   \* the include_digital_only_tracks setting
    NEW_BEETS,     \* whether the installed beets is 1.5.0 or later
    guru,          \* the Metaguru built for the request
    op,            \* the operation that ran: "album" or "singleton"
    result,        \* what the request returned
    today,         \* the date date.today() gave the request last served
    call,          \* a direct call of a static method of Helpers, as the tests make
    search         \* the frame of the generator BandcampPlugin._search

vars == <<pc, html, preferred_media, include_all, NEW_BEETS, guru, op, result, today, call,
          search>>

NoGuru   == [none |-> TRUE]
NoResult == [kind |-> "pending"]
NoCall   == [fn |-> "none"]
NoDate   == [year |-> 0, month |-> 0, day |-> 0]
NoSearch == [pc |-> "none"]

Init ==
    /\ pc = "fetched"
    /\ html \in Pages \cup {EmptyHtml}
    /\ preferred_media \in Preferences
    /\ include_all \in BOOLEAN
    /\ NEW_BEETS \in BOOLEAN
    /\ guru = NoGuru
    /\ op = "none"
    /\ result = NoResult
    /\ today = NoDate
    /\ call = NoCall
    /\ search = NoSearch

\* get_album_info / get_track_info: "... if html else None"
NoHtml ==
    /\ pc = "fetched"
    /\ html = EmptyHtml
    /\ pc' = "done"
    /\ result' = ReturnedNone
    /\ UNCHANGED <<html, preferred_media, include_all, NEW_BEETS, guru, op, today, call, search>>

\* Metaguru(html, self.media)
Build ==
    /\ pc = "fetched"
    /\ html # EmptyHtml
    /\ \E made \in {Metaguru(html, preferred_media)} :
           IF made.ok
           THEN /\ guru' = made.v
                /\ pc' = "built"
                /\ UNCHANGED result
           ELSE /\ result' = Raised(made.exc)
                /\ pc' = "done"
                /\ UNCHANGED guru
    /\ UNCHANGED <<html, preferred_media, include_all, NEW_BEETS, op, today, call, search>>

\* get_album_info: .album(include_all)
Album ==
    /\ pc = "built"
    /\ \E run \in {albumRun(guru, include_all)} :
           /\ guru' = run.g
           /\ \E now \in (IF run.exc = "" THEN Todays ELSE {today}) :
                /\ today' = now
                /\ \E args \in (IF run.exc = "" THEN Orderings(clean_album_name_args(run.g))
                                ELSE {<<>>}) :
                       result' = albumResult(run, include_all, args, now)
    /\ op' = "album"
    /\ pc' = "done"
    /\ UNCHANGED <<html, preferred_media, include_all, NEW_BEETS, call, search>>

\* get_track_info: .singleton
Singleton ==
    /\ pc = "built"
    /\ \E run \in {singletonRun(guru, NEW_BEETS)} :
           /\ guru' = run.g
           /\ \E now \in (IF run.exc = "" /\ NEW_BEETS THEN Todays ELSE {today}) :
                /\ today' = now
                /\ \E args \in (IF run.exc = "" /\ NEW_BEETS
                                THEN Orderings(clean_album_name_args(run.g))
                                ELSE {<<>>}) :
                       result' = singletonResult(run, NEW_BEETS, args, now)
    /\ op' = "singleton"
    /\ pc' = "done"
    /\ UNCHANGED <<html, preferred_media, include_all, NEW_BEETS, call, search>>

Next == NoHtml \/ Build \/ Album \/ Singleton

Spec == Init /\ [][Next]_vars

(***************************************************************************)
(* One extractor serving several calls: album(include_all) and singleton   *)
(* evaluated again, in any order, on the Metaguru a request has built.     *)
(***************************************************************************)

VinylCDDigital ==
    <<FormatOf(S("VinylFormat")), FormatOf(S("CDFormat")), FormatOf(S("DigitalFormat"))>>

PagesReuse ==
    { OkPage(S("Album"), Some(VinylCDDigital), ListOf(Tracklist(3, 1, 2, 2)), DatedText, Nothing),
      OkPage(S("Some LP"), Some(VinylCDDigital), ListOf(Tracklist(5, 1, 5, 2)), DatedText,
             Some(S("UK"))),
      OkPage(S("Album"), Nothing, ListOf(Tracklist(3, 1, 2, 2)), DatedText, Nothing),
      OkPage(S("Album"), Some(VinylCDDigital), Nothing, DatedText, Nothing),
      OkPage(S("Album"), Some(VinylCDDigital), ListOf(Tracklist(2, 4, 4, 1)), S("by Label"),
             Nothing),
      [block |-> "none", json |-> EmptyDict, text |-> DatedText] }

InitReuse ==
    /\ pc = "fetched"
    /\ html \in PagesReuse
    /\ preferred_media \in Preferences
    /\ include_all \in BOOLEAN
    /\ NEW_BEETS \in BOOLEAN
    /\ guru = NoGuru
    /\ op = "none"
    /\ result = NoResult
    /\ today = NoDate
    /\ call = NoCall
    /\ search = NoSearch

\* .album(ia) on the extractor an earlier call has left
AlbumAgain ==
    /\ pc = "done"
    /\ guru # NoGuru
    /\ \E ia \in BOOLEAN :
           /\ include_all' = ia
           /\ \E run \in {albumRun(guru, ia)} :
                  /\ guru' = run.g
                  /\ \E now \in (IF run.exc = "" THEN Todays ELSE {today}) :
                       /\ today' = now
                       /\ \E args \in (IF run.exc = ""
                                       THEN Orderings(clean_album_name_args(run.g))
                                       ELSE {<<>>}) :
                              result' = albumResult(run, ia, args, now)
    /\ op' = "album"
    /\ UNCHANGED <<pc, html, preferred_media, NEW_BEETS, call, search>>

\* .singleton on the extractor an earlier call has left
SingletonAgain ==
    /\ pc = "done"
    /\ guru # NoGuru
    /\ \E run \in {singletonRun(guru, NEW_BEETS)} :
           /\ guru' = run.g
           /\ \E now \in (IF run.exc = "" /\ NEW_BEETS THEN Todays ELSE {today}) :
                /\ today' = now
                /\ \E args \in (IF run.exc = "" /\ NEW_BEETS
                                THEN Orderings(clean_album_name_args(run.g))
                                ELSE {<<>>}) :
                       result' = singletonResult(run, NEW_BEETS, args, now)
    /\ op' = "singleton"
    /\ UNCHANGED <<pc, html, preferred_media, include_all, NEW_BEETS, call, search>>

NextReuse == Build \/ Album \/ Singleton \/ AlbumAgain \/ SingletonAgain

SpecReuse == InitReuse /\ [][NextReuse]_vars

(***************************************************************************)
(* An extractor whose accessors are read before album() is called on it.   *)
(***************************************************************************)

Accessors == {"media", "disctitle", "catalognum", "clean_album_name", "is_ep"}

\* reading accessor a of g: the properties its body reads, in order.
\* clean_album_name is a plain property: it stores nothing itself.
readRun(g, a) ==
    IF a = "clean_album_name"
    THEN TouchList(g, <<"catalognum", "label">>
                      \o (IF g._singleton THEN <<>> ELSE <<"albumartist">>)
                      \o <<"album_name">>, 1)
    ELSE Touch(g, a)

\* g.<accessor>, read by the caller before it asks for the album; an exception
\* the read raises is the caller's to handle
Read ==
    /\ pc = "built"
    /\ \E a \in Accessors : guru' = readRun(guru, a).g
    /\ UNCHANGED <<pc, html, preferred_media, include_all, NEW_BEETS, op, result, today, call, search>>

NextAccess == Build \/ Read \/ Album

SpecAccess == InitReuse /\ [][NextAccess]_vars

(***************************************************************************)
(* BandcampPlugin._search: the generator of the URLs of the items of one   *)
(* kind that the result pages of a query hold.  search is its frame:       *)
(*   max_urls, search_type, urls (the set), page, html  - its locals;      *)
(*   pos      - the offset in html the loop over re.finditer has reached;  *)
(*   yielded  - the URLs it has yielded so far, in order;                  *)
(*   pc       - "head" at the test of the while loop, "scan" inside the    *)
(*              for loop, "stopped" once it has returned.                  *)
(***************************************************************************)

MaxSearch == 2
MaxPage   == 3

ALBUM_SEARCH == "album"
TRACK_SEARCH == "track"

\* SEARCH_ITEM_PAT.format(search_type):  href="(https://[^/]*/{}/[^?]*)
SEARCH_ITEM_PAT(search_type) ==
    Pattern(Cat(<<Lit("href=\""),
                  Grp(1, Cat(<<Lit("https://"), Star(NotIn({"/"})), Lit("/"),
                               Lit(search_type), Lit("/"), Star(NotIn({"?"}))>>))>>), 1)

\* str(page)
Decimal(n) ==
    IF n < 10 THEN <<DigitSeq[n + 1]>>
    ELSE <<DigitSeq[(n \div 10) + 1], DigitSeq[(n % 10) + 1]>>

\* next_page_exists(): re.search(rf"page={page}", html)
next_page_exists(f) == Contains(f.html, S("page=") \o Decimal(f.page))

\* the link of a result page to the item u of a kind, and to result page n
ItemLink(kind, u) == S("href=\"https://a/") \o S(kind) \o S("/") \o S(u) \o S("?s\" ")
PageLink(n)       == S("page=") \o Decimal(n) \o S(" ")

\* the texts _get returns for a result page
SearchTexts ==
    { ItemLink("album", "1") \o PageLink(2),
      ItemLink("album", "1") \o ItemLink("album", "2") \o PageLink(2) \o PageLink(3),
      ItemLink("album", "2"),
      ItemLink("track", "1") \o ItemLink("album", "3") \o PageLink(3),
      PageLink(2) \o PageLink(3) \o PageLink(4),
      ItemLink("track", "2") \o PageLink(20),
      S("href=\"https://a/album/1\" ") \o ItemLink("album", "2") }

InitSearch ==
    /\ pc = "idle"
    /\ html = EmptyHtml
    /\ preferred_media = DEFAULT_MEDIA
    /\ include_all = TRUE
    /\ NEW_BEETS = TRUE
    /\ guru = NoGuru
    /\ op = "none"
    /\ result = NoResult
    /\ today = NoDate
    /\ call = NoCall
    /\ \E n \in 1..MaxSearch, kind \in {ALBUM_SEARCH, TRACK_SEARCH} :
           search = [max_urls |-> n, search_type |-> kind, urls |-> {}, page |-> 1,
                     html |-> S("page=1"), pos |-> 0, yielded |-> <<>>, pc |-> "head"]

\* while next_page_exists(): html = self._get(...); if not html: break
SearchFetch ==
    /\ search.pc = "head"
    /\ search.page <= MaxPage
    /\ next_page_exists(search)
    /\ \E text \in SearchTexts \cup {<<>>} :
           search' = [search EXCEPT !.html = text, !.pos = 0,
                                    !.pc = IF text = <<>> THEN "stopped" ELSE "scan"]
    /\ UNCHANGED <<pc, html, preferred_media, include_all, NEW_BEETS, guru, op, result,
                   today, call>>

\* the test of the while loop fails
SearchNoNextPage ==
    /\ search.pc = "head"
    /\ ~next_page_exists(search)
    /\ search' = [search EXCEPT !.pc = "stopped"]
    /\ UNCHANGED <<pc, html, preferred_media, include_all, NEW_BEETS, guru, op, result,
                   today, call>>

\* one pass of "for match in re.finditer(pattern, html)"
SearchMatch ==
    /\ search.pc = "scan"
    /\ \E match \in {SearchFrom(SEARCH_ITEM_PAT(search.search_type), search.html,
                                search.pos)} :
           /\ match.found
           /\ IF Cardinality(search.urls) = search.max_urls
              THEN search' = [search EXCEPT !.pc = "stopped"]
              ELSE \E url \in {Group(search.html, match, 1)} :
                       search' = [search EXCEPT
                                     !.pos = match.end,
                                     !.urls = @ \cup {url},
                                     !.yielded = IF url \in search.urls THEN @
                                                 ELSE Append(@, url)]
    /\ UNCHANGED <<pc, html, preferred_media, include_all, NEW_BEETS, guru, op, result,
                   today, call>>

\* the for loop runs out of matches: page += 1; continue
SearchPageDone ==
    /\ search.pc = "scan"
    /\ ~SearchFrom(SEARCH_ITEM_PAT(search.search_type), search.html, search.pos).found
    /\ search' = [search EXCEPT !.page = @ + 1, !.pc = "head"]
    /\ UNCHANGED <<pc, html, preferred_media, include_all, NEW_BEETS, guru, op, result,
                   today, call>>

NextSearch == SearchFetch \/ SearchNoNextPage \/ SearchMatch \/ SearchPageDone

SpecSearch == InitSearch /\ [][NextSearch]_vars

(***************************************************************************)
(* The static methods of Helpers called directly on a text, as the parsing *)
(* tests call them, and the body of the loop of Metaguru.tracks applied to *)
(* one tracklist entry.                                                    *)
(***************************************************************************)

\* album titles, disc titles and descriptions given to parse_catalognum
CatAlbums ==
    { S("Tracker-229 [PRH-002]"), S("[PRHX-002] Tracker-229"), S("Tracker-229 PRH-002"),
      S("UTC003-CD"), S("Album"), S("Album [VOLT-123]"), S("Vol.3 [ABCD-123] 2020"),
      S("Christmas 2020") }

CatDiscTitles == { <<>>, S("2 x Vinyl LP - MTY003"), S("CD") }

CatDescriptions ==
    { <<>>, S("Catalogue Number: ISMVA003.2"), S("Cat No.: Vol-12"), S("Heavy vinyl") }

\* track names of the form  <ALT>. <Artist> - <Title>
TrackAlts    == { S("A1"), S("AB12"), S("H3"), S("1"), S("12") }
TrackArtistsIn == { S("Artist"), S("Some Artist"), S("Jean-Michel") }
TrackTitles  == { S("Title"), S("Some-Title"), S("2 Title"), S("Title (Remix)") }

TrackName(alt, artist, title) == alt \o S(". ") \o artist \o S(" - ") \o title

\* track names of other forms
OtherTrackNames ==
    { S("Artist - Title"), S("Title"), S("Artist - Title -"), S("???"), <<>>,
      S("Title -") }

TrackNames ==
    {TrackName(alt, a, t) : alt \in TrackAlts, a \in TrackArtistsIn, t \in TrackTitles}
    \cup OtherTrackNames

\* names given to check_digital_only and found in a tracklist
DigitalNames ==
    { S("Artist - Track [Digital Bonus]"), S("Digital Life"), S("DIGI 1. Artist - Track"),
      S("Artist - Track (bandcamp exclusive)"), S("Track [digi only]"),
      S("Track (Bonus Track)"), S("Artist - Track"), S("Track (bonus) (ONLY)"),
      S("Track ((bonus)bonus)"), S("DIGI DIGI 2. Track") }

\* album names given to clean_up_album_name, and the tuples of extra
\* exclusion terms given with them
CleanNames ==
    { S("Album"), S("Album EP"), S("Album Label EP"), S("Label - Album"),
      S("Album (Label)"), S("Album | Label"), S("[Label]"), S(" EP"), S("Album E.P. EP"),
      S("Album [Cat-01] LP"), S("Various Artists - Album"), S("Album (Free Download)") }

CleanExclusions ==
    { <<>>, <<S("Label")>>, <<S("Cat-01"), S("Label")>>, <<S("Label"), S("Cat-01")>>,
      << <<>> >>, << <<>>, S("Label") >> }

\* titles given to urlify
UrlTitles ==
    { S("LI$INGLE010 - cyberflex - LEVEL X"), S("LI$INGLE007 - Re:drum - Movin'"),
      S("X23 & Høbie - Exhibit A"), <<>>, S("---"), S("'"), S("-a-"), S("a''b"),
      S(" Lead"), S("trail!"), S("a--b"), S("A'- 'B"), S("x - - y"), S("li-ingle010") }

Calling(fn, args) == [fn |-> fn, args |-> args, done |-> FALSE]

Calls ==
    {Calling("parse_catalognum", <<a, d, x>>) :
        a \in CatAlbums, d \in CatDiscTitles, x \in CatDescriptions}
    \cup {Calling("parse_track_name", <<n>>) : n \in TrackNames}
    \cup {Calling("check_digital_only", <<n>>) : n \in DigitalNames}
    \cup {Calling("tracks", <<n>>) : n \in DigitalNames}
    \cup {Calling("clean_up_album_name", <<n>> \o ex) :
            n \in CleanNames, ex \in CleanExclusions}
    \cup {Calling("urlify", <<t>>) : t \in UrlTitles}

InitHelpers ==
    /\ pc = "idle"
    /\ html = EmptyHtml
    /\ preferred_media = DEFAULT_MEDIA
    /\ include_all = TRUE
    /\ NEW_BEETS = TRUE
    /\ guru = NoGuru
    /\ op = "none"
    /\ result = NoResult
    /\ today = NoDate
    /\ call \in Calls
    /\ search = NoSearch

Return(v) == call' = [call EXCEPT !.done = TRUE] @@ [ret |-> v]

\* Helpers.parse_catalognum(album, disctitle, description)
ParseCatalognum ==
    /\ call.fn = "parse_catalognum" /\ ~call.done
    /\ Return(parse_catalognum(call.args[1], call.args[2], call.args[3]))
    /\ UNCHANGED <<pc, html, preferred_media, include_all, NEW_BEETS, guru, op, result, today, search>>

\* Helpers.parse_track_name(name)
ParseTrackName ==
    /\ call.fn = "parse_track_name" /\ ~call.done
    /\ Return(parse_track_name(call.args[1]))
    /\ UNCHANGED <<pc, html, preferred_media, include_all, NEW_BEETS, guru, op, result, today, search>>

\* Helpers.check_digital_only(name)
CheckDigitalOnly ==
    /\ call.fn = "check_digital_only" /\ ~call.done
    /\ Return(check_digital_only(call.args[1]))
    /\ UNCHANGED <<pc, html, preferred_media, include_all, NEW_BEETS, guru, op, result, today, search>>

\* one pass of the loop of Metaguru.tracks, on a tracklist entry whose item
\* has the name given
TracksLoop ==
    /\ call.fn = "tracks" /\ ~call.done
    /\ Return(TrackItem([position |-> 1, item |-> [name |-> call.args[1]]]))
    /\ UNCHANGED <<pc, html, preferred_media, include_all, NEW_BEETS, guru, op, result, today, search>>

\* the same function applied to what the call returned, with the call's
\* other arguments
Again(v) == call' = call @@ [again |-> v]

\* Helpers.clean_up_album_name(name, *args)
CleanUpAlbumName ==
    /\ call.fn = "clean_up_album_name" /\ ~call.done
    /\ Return(clean_up_album_name(call.args[1], Tail(call.args)))
    /\ UNCHANGED <<pc, html, preferred_media, include_all, NEW_BEETS, guru, op, result, today, search>>

\* Helpers.clean_up_album_name(returned, *args)
CleanUpAlbumNameAgain ==
    /\ call.fn = "clean_up_album_name" /\ call.done /\ "again" \notin DOMAIN call
    /\ Again(clean_up_album_name(call.ret, Tail(call.args)))
    /\ UNCHANGED <<pc, html, preferred_media, include_all, NEW_BEETS, guru, op, result, today, search>>

\* urlify(pretty_string)
Urlify ==
    /\ call.fn = "urlify" /\ ~call.done
    /\ Return(urlify(call.args[1]))
    /\ UNCHANGED <<pc, html, preferred_media, include_all, NEW_BEETS, guru, op, result, today, search>>

\* urlify(returned)
UrlifyAgain ==
    /\ call.fn = "urlify" /\ call.done /\ "again" \notin DOMAIN call
    /\ Again(urlify(call.ret))
    /\ UNCHANGED <<pc, html, preferred_media, include_all, NEW_BEETS, guru, op, result, today, search>>

NextHelpers ==
    \/ ParseCatalognum \/ ParseTrackName \/ CheckDigitalOnly \/ TracksLoop
    \/ CleanUpAlbumName \/ CleanUpAlbumNameAgain \/ Urlify \/ UrlifyAgain

SpecHelpers == InitHelpers /\ [][NextHelpers]_vars


(***************************************************************************)
(* Properties of a request, stated on what went in (html, preferred_media, *)
(* include_all, NEW_BEETS) and what came out (result), and on the          *)
(* extractor the request leaves behind (guru).                             *)
(***************************************************************************)

AlbumDone     == pc = "done" /\ op = "album"
SingletonDone == pc = "done" /\ op = "singleton"
GotRecord     == result.kind = "record"
HasBlock      == html.block = "ok"

\* the release-format list of the page; empty when the page has none
Formats ==
    IF HasBlock /\ "albumRelease" \in DOMAIN html.json THEN html.json["albumRelease"]
    ELSE <<>>

Tagged(f)     == "musicReleaseFormat" \in DOMAIN f
Recognized(f) == Tagged(f) /\ f["musicReleaseFormat"] \in DOMAIN MEDIA_MAP

\* the human names of the formats the page advertises
Advertised ==
    {MEDIA_MAP[Formats[k]["musicReleaseFormat"]] :
        k \in {j \in 1..Len(Formats) : Recognized(Formats[j])}}

\* the first preference that is advertised, else the Digital format
FirstAdvertised ==
    LET prefs == SplitComma(preferred_media, 1, <<>>)
        hits  == SelectSeq(prefs, LAMBDA pr : pr \in Advertised)
    IN  IF hits # <<>> THEN hits[1] ELSE DEFAULT_MEDIA

\* the items of the page's tracklist, as the extractor holds them once
\* album() has returned a record
Listed ==
    LET raw == Get(guru.meta["track"], "itemListElement", <<>>)
    IN  [k \in 1..Len(raw) |-> raw[k]["item"]]

\* the tracks the record is to hold
Kept ==
    IF result.v.media = DEFAULT_MEDIA \/ include_all THEN Listed
    ELSE SelectSeq(Listed, LAMBDA t : ~t["digital_only"])

\* an artist without its " ft. ..." or " feat. ..." suffix
FeatAt(a, i) == StartsAt(a, S(" ft. "), i) \/ StartsAt(a, S(" feat. "), i)
StripFeat(a) ==
    IF \E i \in 0..Len(a) : FeatAt(a, i)
    THEN Slice(a, 0, CHOOSE i \in 0..Len(a) :
                        FeatAt(a, i) /\ \A j \in 0..(i - 1) : ~FeatAt(a, j))
    ELSE a

\* the distinct non-empty artists of the listed tracks
TrackArtists ==
    {StripFeat(IF Falsy(Get(Listed[k], "artist", None)) THEN <<>>
               ELSE Listed[k]["artist"]) : k \in 1..Len(Listed)} \ {<<>>}

TitleVA   == Contains(StrLower(html.json["name"]), S("various artists"))
DiscTitle == IF result.v.media = DEFAULT_MEDIA THEN <<>> ELSE Get(guru._media, "name", <<>>)
HasLP     == Contains(html.json["name"], S("LP")) \/ Contains(DiscTitle, S("LP"))
HasEP     == Contains(html.json["name"], S("EP")) \/ Contains(DiscTitle, S("EP"))

\* the page has a tracklist, and a release date that is a date
HasTracklist ==
    HasBlock /\ "track" \in DOMAIN html.json /\ "itemListElement" \in DOMAIN html.json["track"]
HasDate == strptime(parse_release_date(html.text)).ok

\* C1: whenever album() has run on a page (with a tracklist and a date) that
\* advertises formats, all of recognized kinds, it returns a record whose
\* format is the first preference the page advertises, or Digital when it
\* advertises none of them.
C1_FormatSelection ==
    (AlbumDone /\ HasTracklist /\ HasDate
        /\ Formats # <<>> /\ \A k \in 1..Len(Formats) : Recognized(Formats[k]))
        => (GotRecord /\ result.v.media = FirstAdvertised)

\* C2: a record of album() holds every listed track when the chosen format is
\* Digital or include_all is set, else exactly the listed tracks that are not
\* digital-only, in order; medium_total of each is the number of tracks held.
C2_TrackFiltering ==
    (AlbumDone /\ GotRecord)
        => /\ Len(result.v.tracks) = Len(Kept)
           /\ \A k \in 1..Len(Kept) :
                /\ result.v.tracks[k].track_id = Kept[k]["@id"]
                /\ result.v.tracks[k].title = Kept[k]["title"]
                /\ result.v.tracks[k].medium_total = Len(result.v.tracks)

\* C2: a record for a physical format, without include_all, that left out a
\* digital-only track and kept others
C2_Witness ==
    /\ AlbumDone /\ GotRecord /\ ~include_all
    /\ result.v.media # DEFAULT_MEDIA
    /\ Len(result.v.tracks) > 0
    /\ Len(result.v.tracks) < Len(Listed)

\* the album type the order singleton > LP > various-artists > default gives
TypeInOrder ==
    IF HasLP THEN S("album") ELSE IF result.v.va THEN S("compilation") ELSE S("ep")

\* C3, as amended: the record of a standalone track is typed "single"; the
\* record of an album is typed "album" if the album or disc title contains
\* "LP", else "compilation" if it is various-artists, else "ep"; and an album
\* of 4 tracks by one artist with no EP/LP marker, whose title does not
\* contain "various artists", is typed "ep" and is not various-artists.
C3_AlbumTypeOrder ==
    /\ (SingletonDone /\ GotRecord /\ NEW_BEETS) => result.v.albumtype = S("single")
    /\ (AlbumDone /\ GotRecord) => result.v.albumtype = TypeInOrder
    /\ (AlbumDone /\ GotRecord /\ HasLP /\ result.v.va) => result.v.albumtype = S("album")
    /\ (AlbumDone /\ GotRecord /\ Len(Listed) = 4 /\ Cardinality(TrackArtists) = 1
            /\ ~HasLP /\ ~HasEP /\ ~TitleVA)
        => (result.v.albumtype = S("ep") /\ ~result.v.va)

\* C3: an LP release that is various-artists, typed "album"
C3_Witness ==
    AlbumDone /\ GotRecord /\ HasLP /\ result.v.va /\ result.v.albumtype = S("album")

\* C3, as written: every album of 4 tracks by one artist with no EP/LP marker
\* is typed "ep" and is not various-artists.
C3_AsWritten ==
    (AlbumDone /\ GotRecord /\ Len(Listed) = 4 /\ Cardinality(TrackArtists) = 1
            /\ ~HasLP /\ ~HasEP)
        => (result.v.albumtype = S("ep") /\ ~result.v.va)

\* C4: the various-artists flag of a record of album() is true exactly when
\* the album title contains "various artists", whatever the case, or the
\* tracks have more than one distinct non-empty artist (feat./ft. suffixes
\* stripped) and there are more than 4 tracks.
C4_VariousArtists ==
    (AlbumDone /\ GotRecord)
        => (result.v.va <=> (TitleVA \/ (Cardinality(TrackArtists) > 1 /\ Len(Listed) > 4)))

\* C4: a record that is various-artists by its tracks alone
C4_Witness ==
    AlbumDone /\ GotRecord /\ result.v.va /\ ~TitleVA /\ Cardinality(TrackArtists) > 1

\* C5: the album artist of a record of album() is "Various Artists" when the
\* release is various-artists, else the sole track artist when there is
\* exactly one, else the artist the page declares; more than 4 tracks by more
\* than one artist and no LP marker give "compilation", various-artists and
\* "Various Artists".
C5_AlbumArtist ==
    (AlbumDone /\ GotRecord)
        => /\ result.v.artist =
                IF result.v.va THEN S("Various Artists")
                ELSE IF Cardinality(TrackArtists) = 1 THEN CHOOSE a \in TrackArtists : TRUE
                ELSE html.json["byArtist"]["name"]
           /\ (Len(Listed) > 4 /\ Cardinality(TrackArtists) > 1 /\ ~HasLP)
                => /\ result.v.albumtype = S("compilation")
                   /\ result.v.va
                   /\ result.v.artist = S("Various Artists")

\* C5: a record with the sole track artist as album artist, where the page
\* declares another
C5_Witness ==
    /\ AlbumDone /\ GotRecord /\ ~result.v.va
    /\ Cardinality(TrackArtists) = 1
    /\ result.v.artist \in TrackArtists
    /\ result.v.artist # html.json["byArtist"]["name"]

\* C6: album() on a page with a metadata block that advertises no release
\* format (no list, an empty list, or no entry with a format tag) returns None.
C6_NoFormatsAbsent ==
    (AlbumDone /\ HasBlock /\ \A k \in 1..Len(Formats) : ~Tagged(Formats[k]))
        => result = ReturnedNone

\* the page without the entries whose format tag is not recognized
WithoutUnknown ==
    [html EXCEPT !.json = Update(@, "albumRelease" :>
        SelectSeq(Formats, LAMBDA f : ~Tagged(f) \/ Recognized(f)))]

\* what album(ia) can return on page with preference pref
AlbumResults(page, pref, ia) ==
    UNION { { albumResult(run, ia, args, now) :
                now \in Todays,
                args \in (IF run.exc = "" THEN Orderings(clean_album_name_args(run.g))
                          ELSE {<<>>}) } :
            run \in {albumRun(Metaguru(page, pref).v, ia)} }

\* C7: album() on a page with an entry whose format tag is not recognized
\* returns what it returns on the page without such entries.
C7_UnknownFormatSkipped ==
    (AlbumDone /\ HasBlock /\ \E k \in 1..Len(Formats) :
                                 Tagged(Formats[k]) /\ ~Recognized(Formats[k]))
        => result \in AlbumResults(WithoutUnknown, preferred_media, include_all)

\* C8: album() on a page with no metadata block returns None, whatever the
\* preferred format and include_all.
C8_NoBlockAbsent ==
    (AlbumDone /\ html.block = "none") => result = ReturnedNone

\* C8: album() has run on a page with no metadata block
C8_Witness ==
    /\ AlbumDone /\ html.block = "none" /\ result.kind = "none"
    /\ include_all /\ preferred_media = S("Cassette,CD")

\* C9: a request on a page whose metadata block is found and does not decode
\* ends with None: nothing is raised.
C9_UndecodableAbsent ==
    (pc = "done" /\ html.block = "bad") => result = ReturnedNone

\* where the page says its publisher is, if it does
Location ==
    IF "foundingLocation" \in DOMAIN html.json["publisher"]
    THEN html.json["publisher"]["foundingLocation"]["name"]
    ELSE <<>>

\* C10: album() on a page with a metadata block, a tracklist and a recognized
\* format but no release-date phrase returns a record; and a record has a text
\* for catalognum, and "XW" for country when the page gives no location or one
\* that is no country.
C10_PatternMissNotRaised ==
    /\ (AlbumDone /\ HasTracklist
            /\ (\E k \in 1..Len(Formats) : Recognized(Formats[k]))
            /\ parse_release_date(html.text) = <<>>)
        => GotRecord
    /\ (AlbumDone /\ GotRecord)
        => /\ result.v.catalognum # None
           /\ Location \in {<<>>, S("No Ones, Land")} => result.v.country = WORLDWIDE

\* C11: when album() has run on a page whose metadata block has no tracklist
\* (no track entry, or a track entry without an element list), the caller
\* sees an error or None: no record comes back.
C11_NoTracklistVisible ==
    AlbumDone /\ HasBlock /\ ~HasTracklist => ~GotRecord

\* C12: every record album() returns holds as many tracks as the chosen
\* format keeps, and its k-th track has index k and medium_index k.
C12_TrackIndices ==
    AlbumDone /\ GotRecord =>
        /\ Len(result.v.tracks) = Len(Kept)
        /\ \A k \in 1..Len(result.v.tracks) :
              /\ result.v.tracks[k].index = k
              /\ result.v.tracks[k].medium_index = k

\* C14: once album() or singleton has run, the metadata block the extractor
\* holds is the value decoded from the page text at construction.
C14_BlockReadOnly ==
    pc = "done" /\ guru # NoGuru => guru.meta = (IF HasBlock THEN html.json ELSE EmptyDict)

\* C20: the mediums field of a record is the number of discs the chosen
\* format's disc title announces ("single"/"double"/"triple" as 1/2/3, a
\* count digit 1-5 as its value, 1 when the title announces none; a size
\* such as 12" is not a count) when the chosen format is Vinyl, and 1 for
\* every other format.
C20_Mediums ==
    AlbumDone /\ GotRecord =>
        result.v.mediums =
            (IF result.v.media = S("Vinyl") THEN VinylCount[DiscTitle] ELSE 1)

\* a Vinyl record whose disc title names both a count and a size
C20_Witness ==
    /\ AlbumDone /\ GotRecord
    /\ result.v.media = S("Vinyl")
    /\ DiscTitle = S("Triple 10\" Vinyl")
    /\ result.v.mediums = 3

\* what singleton can return on page with preference pref
SingletonResults(page, pref, nb) ==
    UNION { { singletonResult(run, nb, args, now) :
                now \in Todays,
                args \in (IF run.exc = "" /\ nb
                          THEN Orderings(clean_album_name_args(run.g))
                          ELSE {<<>>}) } :
            run \in {singletonRun(Metaguru(page, pref).v, nb)} }

\* C13: whatever calls an extractor has served before, album(include_all)
\* and singleton return what they return as the first call on a fresh
\* extractor built from the same page text and preferred format.
C13_NoCarryOver ==
    (pc = "done" /\ guru # NoGuru) =>
        result \in (IF op = "album"
                    THEN AlbumResults(html, preferred_media, include_all)
                    ELSE SingletonResults(html, preferred_media, NEW_BEETS))

(***************************************************************************)
(* Properties of the static methods, stated on a direct call (call.args)   *)
(* and what it returned (call.ret).                                        *)
(***************************************************************************)

CallDone(fn) == call.fn = fn /\ call.done

\* what pattern captures in string once the exclusions are deleted from it:
\* the first non-empty group, or None
Captured(pattern, string) ==
    LET cleaned == Sub(PAT_catalognum_excl, string)
        match   == Search(pattern, cleaned)
    IN  IF match.found THEN FirstGroup(cleaned, match, 1) ELSE None

\* C15: parse_catalognum returns the capture of the first of its four
\* sources, in the order description (labelled header), bracketed code in
\* the album title, anchored code in the disc title, anchored code in the
\* album title, that captures a non-empty text once the exclusions are
\* deleted from it, and the empty text when none does.
C15_SourceOrder ==
    CallDone("parse_catalognum") =>
        LET caps == << Captured(PAT_desc_catalognum, call.args[3]),
                       Captured(PAT_quick_catalognum, call.args[1]),
                       Captured(PAT_catalognum, call.args[2]),
                       Captured(PAT_catalognum, call.args[1]) >>
            hits == SelectSeq(caps, LAMBDA c : ~Falsy(c))
        IN  call.ret = (IF hits = <<>> THEN <<>> ELSE hits[1])

\* C15: no labelled code in the description, while the album title holds a
\* bracketed code and an anchored one and the disc title an anchored one:
\* the bracketed code is returned
C15_Witness ==
    /\ CallDone("parse_catalognum")
    /\ call.args = <<S("Tracker-229 [PRH-002]"), S("2 x Vinyl LP - MTY003"), S("Heavy vinyl")>>
    /\ call.ret = S("PRH-002")

\* album holds a code of the shape [XXXX-###] whose bracket opens at i
BracketAt(album, i) ==
    /\ i + 9 <= Len(album)
    /\ album[i] = "[" /\ album[i + 5] = "-" /\ album[i + 9] = "]"
    /\ \A j \in (i + 1)..(i + 4) : album[j] \in Upper
    /\ \A j \in (i + 6)..(i + 8) : album[j] \in Digit

\* C16: when the album title holds a bracketed code of the shape [XXXX-###]
\* (and the description is empty), parse_catalognum returns that code
\* without the brackets, whatever surrounds it in the title.
C16_BracketedCode ==
    (CallDone("parse_catalognum") /\ call.args[3] = <<>>) =>
        \A i \in 1..Len(call.args[1]) :
            BracketAt(call.args[1], i) => call.ret = SubSeq(call.args[1], i + 1, i + 8)

\* C17: for a name "<ALT>. <Artist> - <Title>", parse_track_name returns
\* track_alt ALT, artist Artist and title Title, and parsing the name
\* re-assembled from what it returned returns the same again.
C17_AltArtistTitle ==
    CallDone("parse_track_name") =>
        \A alt \in TrackAlts, a \in TrackArtistsIn, t \in TrackTitles :
            call.args[1] = TrackName(alt, a, t) =>
                /\ call.ret = [track_alt |-> alt, artist |-> a, title |-> t]
                /\ parse_track_name(TrackName(call.ret.track_alt, call.ret.artist,
                                              call.ret.title)) = call.ret

\* the offset of the last " - " in name
LastDash(name) ==
    CHOOSE i \in 0..Len(name) :
        /\ StartsAt(name, S(" - "), i)
        /\ \A j \in (i + 1)..Len(name) : ~StartsAt(name, S(" - "), j)

\* C18: for a name the decomposition pattern does not match,
\* parse_track_name returns the parts of the name around its last " - "
\* (artist the left one, title the right one), and the whole name as title
\* with no artist when the name has no " - ".
C18_Fallback ==
    (CallDone("parse_track_name") /\ ~Search(PAT_track_name, call.args[1]).found) =>
        call.ret =
            (IF Contains(call.args[1], S(" - "))
             THEN [artist    |-> Slice(call.args[1], 0, LastDash(call.args[1])),
                   title     |-> Slice(call.args[1], LastDash(call.args[1]) + 3,
                                       Len(call.args[1])),
                   track_alt |-> None]
             ELSE [title |-> call.args[1], artist |-> None, track_alt |-> None])

\* C19: check_digital_only flags a name exactly when deleting the markers
\* changes it, and then returns the name without them; "Digital Life" is
\* not flagged; the title of a tracklist item is parsed from the name
\* without the markers and holds no marker.
C19_DigitalOnly ==
    /\ CallDone("check_digital_only") =>
          /\ call.ret.digital_only <=> (Sub(PAT_digital, call.args[1]) # call.args[1])
          /\ call.ret.digital_only => call.ret.name = Sub(PAT_digital, call.args[1])
          /\ call.args[1] = S("Digital Life") => ~call.ret.digital_only
    /\ CallDone("tracks") =>
          /\ call.ret["title"] = parse_track_name(Sub(PAT_digital, call.args[1])).title
          /\ ~Search(PAT_digital, call.ret["title"]).found


\* the text clean_up_album_name is left with once the pattern's matches are
\* deleted and the result stripped
Stripped(name, ex) == Strip(Sub(clean_up_pattern(ex), name))

\* C21: cleaning an album name that clean_up_album_name returned, with the same
\* exclusion terms, gives that name back.
C21_Idempotent ==
    CallDone("clean_up_album_name") /\ "again" \in DOMAIN call => call.again = call.ret

\* C22: for a non-empty name clean_up_album_name returns a non-empty text; when
\* stripping leaves nothing it is the first exclusion term provided, or the
\* original name if none was provided.
C22_NeverEmpty ==
    CallDone("clean_up_album_name") /\ call.args[1] # <<>> =>
        /\ call.ret # <<>>
        /\ Stripped(call.args[1], Tail(call.args)) = <<>> =>
              call.ret = (IF Len(call.args) > 1 THEN call.args[2] ELSE call.args[1])

\* the maximal runs of characters of a-z and 0-9 in chars[k..], in order;
\* word is the run being read
RECURSIVE UrlWords(_, _, _)
UrlWords(chars, k, word) ==
    LET closed == IF word = <<>> THEN <<>> ELSE <<word>>
    IN  IF k > Len(chars) THEN closed
        ELSE IF chars[k] \in Lower \cup Digit
        THEN UrlWords(chars, k + 1, Append(word, chars[k]))
        ELSE closed \o UrlWords(chars, k + 1, <<>>)

RECURSIVE JoinHyphen(_)
JoinHyphen(ws) ==
    IF ws = <<>> THEN <<>>
    ELSE IF Len(ws) = 1 THEN ws[1]
    ELSE ws[1] \o <<"-">> \o JoinHyphen(Tail(ws))

\* C26: what urlify returns holds only a-z, 0-9 and hyphens, does not begin or
\* end with a hyphen and has no two hyphens in a row; it is the runs of
\* letters and digits of the lower-cased title without its apostrophes,
\* joined by one hyphen each; and urlify leaves it unchanged.
C26_Urlify ==
    CallDone("urlify") =>
        LET out   == call.ret
            chars == SelectSeq(StrLower(call.args[1]), LAMBDA ch : ch # "'")
        IN  /\ \A i \in 1..Len(out) : out[i] \in Lower \cup Digit \cup {"-"}
            /\ out # <<>> => out[1] # "-" /\ out[Len(out)] # "-"
            /\ \A i \in 1..(Len(out) - 1) : ~(out[i] = "-" /\ out[i + 1] = "-")
            /\ out = JoinHyphen(UrlWords(chars, 1, <<>>))
            /\ "again" \in DOMAIN call => call.again = out

\* a title with an apostrophe, a colon and spaced dashes, urlified twice
C26_Witness ==
    /\ CallDone("urlify")
    /\ call.args[1] = S("LI$INGLE007 - Re:drum - Movin'")
    /\ call.ret = S("li-ingle007-re-drum-movin")
    /\ "again" \in DOMAIN call
    /\ call.again = call.ret

(***************************************************************************)
(* Properties of the fields of a record.                                   *)
(***************************************************************************)

TopDuration ==
    LET props == Get(html.json, "additionalProperty", <<>>)
        hits  == {k \in 1..Len(props) : props[k]["name"] = S("duration_secs")}
    IN  IF hits = {} THEN 0 ELSE props[CHOOSE k \in hits : TRUE]["value"]

\* C24: the track singleton returns has the title and the artist that
\* parse_track_name finds in the page's name (the page's artist when it finds
\* none), index 1, medium_index 1, medium_total 1, the page's id as track_id
\* and the whole seconds of the page's duration as length.
C24_Singleton ==
    SingletonDone /\ GotRecord =>
        LET parsed == parse_track_name(html.json["name"])
        IN  /\ result.v.title = parsed["title"]
            /\ result.v.artist = (IF ~Falsy(parsed["artist"]) THEN parsed["artist"]
                                  ELSE html.json["byArtist"]["name"])
            /\ result.v.index = 1
            /\ result.v.medium_index = 1
            /\ result.v.medium_total = 1
            /\ result.v.track_id = html.json["@id"]
            /\ result.v.length = TopDuration \div 10

\* the track of a page named "Artist - Title" that lasts 200.9 seconds
C24_Witness ==
    /\ SingletonDone /\ GotRecord
    /\ html.json["name"] = S("Artist - Title")
    /\ TopDuration = 2009
    /\ result.v.title = S("Title")
    /\ result.v.artist = S("Artist")
    /\ result.v.length = 200

\* C25: once album() has returned a record, is_ep is true exactly when the
\* album title or the disc title contains "EP", or the page advertises more
\* than one format and lists fewer than 5 tracks.
C25_IsEP ==
    AlbumDone /\ GotRecord =>
        (is_ep(guru).v <=> (HasEP \/ (Len(Formats) > 1 /\ Len(Listed) < 5)))

\* the release date the page text gives
Released == strptime(parse_release_date(html.text)).v

\* a date as one number, for comparing
DayNumber(d) == 10000 * d.year + 100 * d.month + d.day

\* C27: the albumstatus of a record is "Official" when the release date is
\* earlier than the day the request ran on, and "Promotional" when it is that
\* day or a later one.
C27_AlbumStatus ==
    (pc = "done" /\ GotRecord /\ "albumstatus" \in DOMAIN result.v) =>
        result.v.albumstatus =
            (IF DayNumber(Released) < DayNumber(today) THEN OFFICIAL ELSE PROMO)

\* a record made on the release date itself
C27_Witness ==
    /\ AlbumDone /\ GotRecord
    /\ today = Released
    /\ result.v.albumstatus = PROMO

\* C29: every record album() can return for a page and a preferred format has
\* the same album title: a second extractor built from the same page text
\* and preference returns the title this one returned.
C29_TitleDeterministic ==
    AlbumDone /\ GotRecord =>
        \A r \in AlbumResults(html, preferred_media, include_all) :
            r.kind = "record" => r.v.album = result.v.album

\* the format the last album() call selected, its human name and the disc
\* title that goes with it
SelectedMedia == MEDIA_MAP[guru._media["musicReleaseFormat"]]
SelectedDiscTitle ==
    IF SelectedMedia = DEFAULT_MEDIA THEN <<>> ELSE Get(guru._media, "name", <<>>)

\* C28: whatever accessors were read before album(), a record album() returns
\* has the media of the format that call selected, that format's disc title
\* on every track, its number of discs as mediums, and the catalogue number
\* found with that disc title and description.
C28_SelectedFormat ==
    AlbumDone /\ GotRecord =>
        /\ result.v.media = SelectedMedia
        /\ \A k \in 1..Len(result.v.tracks) :
              result.v.tracks[k].disctitle =
                  (IF SelectedDiscTitle = <<>> THEN None ELSE SelectedDiscTitle)
        /\ result.v.mediums =
              (IF SelectedMedia = S("Vinyl") THEN get_vinyl_count(SelectedDiscTitle) ELSE 1)
        /\ result.v.catalognum =
              parse_catalognum(html.json["name"], SelectedDiscTitle, description(guru))

(***************************************************************************)
(* Properties of the search iterator                                       *)
(***************************************************************************)

\* the generator has just fetched a result page and has not looked at it yet
JustFetched == search.pc = "scan" /\ search.pos = 0

\* the URLs yielded so far are pairwise different and at most search_max
YieldedOnce ==
    /\ \A i, j \in 1..Len(search.yielded) :
           search.yielded[i] = search.yielded[j] => i = j
    /\ Len(search.yielded) <= search.max_urls

\* C30: _search yields each URL at most once and at most search_max URLs; it
\* has stopped whenever a fetch returned empty text, it fetches no further
\* page once search_max URLs have been yielded, and it stops only after an
\* empty fetch, with the limit reached, or with no reference to the next page
\* number in the text it holds.
C30_SearchStops ==
    /\ YieldedOnce
    /\ search.html = <<>> => search.pc = "stopped"
    /\ JustFetched => Len(search.yielded) < search.max_urls
    /\ search.pc = "stopped" =>
           \/ search.html = <<>>
           \/ Len(search.yielded) = search.max_urls
           \/ ~next_page_exists(search)

=============================================================================
